---- MODULE Spec2Model ----
(***************************************************************************)
(* reAItor backend: the search pipeline coordinator (api/search.py), the   *)
(* candidate collector (services/scraper_orchestrator.py) and the source   *)
(* adapters (agents/*_scraper.py).                                         *)
(*                                                                         *)
(* Strings that the code inspects character by character (addresses) are   *)
(* sequences of one-character strings; strings that the code only stores   *)
(* or compares as a whole (status, message, ids) are TLA+ strings.         *)
(* asyncio runs every coroutine on one event loop, so a handler is atomic  *)
(* between two awaits: one action is the code from one await to the next.  *)
(***************************************************************************)
EXTENDS Integers, Sequences, FiniteSets, TLC

VARIABLES
    chat_sessions,    \* api/chat.py: chat id -> preferences (None or a record)
    search_sessions,  \* api/search.py: search id -> session dict (key -> value)
    task,             \* search id -> locals and position of run_search_pipeline
    calls,            \* search id -> collaborator calls made / raised (history)
    response,         \* the last answer an endpoint gave to a caller
    results,          \* collector: per scraper, the settled result of search()
    outcome,          \* collector: per scraper, how search() ended (history)
    collected,        \* collector: what search_all_platforms returned
    dd_in,            \* deduplication: the list handed to _deduplicate_listings
    dd_out,           \* deduplication: what it returned
    dd_again,         \* deduplication: what it returned for its own output
    met,              \* collector: per scraper, the cards its page held (history)
    settled,          \* collector: the scrapers in the order their calls settled (history)
    na_in,            \* normalization: the two addresses handed to it
    na_out,           \* normalization: what _normalize_address returned for each
    sc_in,            \* scoring: the features and weights handed to it
    sc_out,           \* scoring: what _calculate_personalized_score returned
    feedback_collection,            \* ChromaDB "user_feedback": id -> document
    preference_weights_collection,  \* ChromaDB "preference_weights": id -> document
    seen_listings,    \* api/search.py: search id -> listing ids with feedback
    ret,              \* the last value a RecommendationService query returned
    browser,          \* BaseScraper.browser of the ZillowScraper instance
    open_browsers,    \* the launched browsers that are not closed
    search_task       \* run -> locals and position of ZillowScraper.search

vars == <<chat_sessions, search_sessions, task, calls, response,
          results, outcome, collected, dd_in, dd_out, dd_again,
          met, settled, na_in, na_out, sc_in, sc_out,
          feedback_collection, preference_weights_collection,
          seen_listings, ret, browser, open_browsers, search_task>>

pipelineVars == <<chat_sessions, search_sessions, task, calls, response>>
scraperVars == <<browser, open_browsers, search_task>>
collectorVars == <<results, outcome, collected, met, settled, scraperVars>>
dedupVars == <<dd_in, dd_out, dd_again>>
normalizeVars == <<na_in, na_out>>
scoreVars == <<sc_in, sc_out>>
learnerVars == <<feedback_collection, preference_weights_collection,
                 seen_listings, ret>>
serviceVars == <<normalizeVars, scoreVars, learnerVars>>

\* Python None for an Optional list or string: nothing in it (and falsy)
None == <<>>

Some(x) == <<x>>

-----------------------------------------------------------------------------
(* Bounds *)

\* longest list handed to _deduplicate_listings in SpecDedup
MaxLen == 3
\* most property cards one platform page shows
MaxCards == 1

\* the most property cards a result page holds when the cap is explored
MaxPageCards == 22
\* the largest feature value and weight handed to the personalized score
MaxMagnitude == 1000
\* the most final reports the preference learner is handed
MaxReports == 3
\* a pipeline run is explored when the collector returned at most this many
MaxListings == 2

-----------------------------------------------------------------------------
(* Python str operations, on sequences of characters *)

UpperLetters == <<"A","B","C","D","E","F","G","H","I","J","K","L","M","N","O","P","Q","R","S","T","U","V","W","X","Y","Z">>

LowerLetters == <<"a","b","c","d","e","f","g","h","i","j","k","l","m","n","o","p","q","r","s","t","u","v","w","x","y","z">>

Whitespace == {" ", "\t"}

IndexOf(c, letters) == CHOOSE i \in 1..Len(letters) : letters[i] = c

\* one character of str.lower()
LowerChar(c) ==
    IF \E i \in 1..Len(UpperLetters) : UpperLetters[i] = c
    THEN LowerLetters[IndexOf(c, UpperLetters)]
    ELSE c

\* str.lower()
Lower(s) == [i \in 1..Len(s) |-> LowerChar(s[i])]

RECURSIVE LStrip(_)
LStrip(s) ==
    IF s # <<>> /\ Head(s) \in Whitespace THEN LStrip(Tail(s)) ELSE s

RECURSIVE RStrip(_)
RStrip(s) ==
    IF s # <<>> /\ s[Len(s)] \in Whitespace
    THEN RStrip(SubSeq(s, 1, Len(s) - 1))
    ELSE s

\* str.strip()
Strip(s) == RStrip(LStrip(s))

\* str.replace(old, new): left to right, occurrences do not overlap
RECURSIVE Replace(_, _, _)
Replace(s, old, new) ==
    IF Len(s) < Len(old) THEN s
    ELSE IF SubSeq(s, 1, Len(old)) = old
         THEN new \o Replace(SubSeq(s, Len(old) + 1, Len(s)), old, new)
         ELSE <<Head(s)>> \o Replace(Tail(s), old, new)

\* str.split(): the maximal runs of non-whitespace characters
RECURSIVE SplitFrom(_, _)
SplitFrom(s, word) ==
    IF s = <<>> THEN (IF word = <<>> THEN <<>> ELSE <<word>>)
    ELSE IF Head(s) \in Whitespace
         THEN (IF word = <<>> THEN <<>> ELSE <<word>>) \o SplitFrom(Tail(s), <<>>)
         ELSE SplitFrom(Tail(s), Append(word, Head(s)))

Split(s) == SplitFrom(s, <<>>)

\* " ".join(words)
RECURSIVE JoinSpace(_)
JoinSpace(words) ==
    IF words = <<>> THEN <<>>
    ELSE IF Len(words) = 1 THEN words[1]
    ELSE words[1] \o <<" ">> \o JoinSpace(Tail(words))

W_street == <<"s","t","r","e","e","t">>

W_st == <<"s","t">>

W_avenue == <<"a","v","e","n","u","e">>

W_ave == <<"a","v","e">>

W_boulevard == <<"b","o","u","l","e","v","a","r","d">>

W_blvd == <<"b","l","v","d">>

W_drive == <<"d","r","i","v","e">>

W_dr == <<"d","r">>

W_road == <<"r","o","a","d">>

W_rd == <<"r","d">>

\* ScraperOrchestrator._normalize_address
_normalize_address(address) ==
    LET n0 == Strip(Lower(address))
        n1 == Replace(n0, W_street, W_st)
        n2 == Replace(n1, W_avenue, W_ave)
        n3 == Replace(n2, W_boulevard, W_blvd)
        n4 == Replace(n3, W_drive, W_dr)
        n5 == Replace(n4, W_road, W_rd)
        n6 == Replace(n5, <<".">>, <<>>)
        n7 == Replace(n6, <<",">>, <<>>)
    IN  JoinSpace(Split(n7))

-----------------------------------------------------------------------------
(* Listings *)

\* "123 Main St"
Addr_MainSt == <<"1","2","3"," ","M","a","i","n"," ","S","t">>

\* "123 Main Street"
Addr_MainStreet == <<"1","2","3"," ","M","a","i","n"," ","S","t","r","e","e","t">>

\* "123 MAIN ST."
Addr_MainUpper == <<"1","2","3"," ","M","A","I","N"," ","S","T",".">>

\* " 123  Main St"
Addr_MainSpaced == <<" ","1","2","3"," "," ","M","a","i","n"," ","S","t">>

\* "9 Oak Rd"
Addr_OakRd == <<"9"," ","O","a","k"," ","R","d">>

\* "9 Oak Road"
Addr_OakRoad == <<"9"," ","O","a","k"," ","R","o","a","d">>

\* "5 Elm Ave"
Addr_ElmAve == <<"5"," ","E","l","m"," ","A","v","e">>

\* "7 Pine Dr"
Addr_PineDr == <<"7"," ","P","i","n","e"," ","D","r">>

\* "1 Broadway"
Addr_Broadway == <<"1"," ","B","r","o","a","d","w","a","y">>

\* "1 Brdway"
Addr_Brdway == <<"1"," ","B","r","d","w","a","y">>

\* "9 Oak Rd #2"
Addr_OakRdUnitHash == <<"9"," ","O","a","k"," ","R","d"," ","#","2">>

\* "9 Oak Rd 2"
Addr_OakRdUnit == <<"9"," ","O","a","k"," ","R","d"," ","2">>

\* "9 Oak Rd, 2"
Addr_OakRdUnitComma == <<"9"," ","O","a","k"," ","R","d",","," ","2">>

AddressPool ==
    {Addr_MainSt, Addr_MainStreet, Addr_MainUpper, Addr_MainSpaced,
     Addr_OakRd, Addr_OakRoad}

\* ScraperOrchestrator.__init__: self.scrapers, in this order
Scrapers == <<"zillow", "redfin", "realtor">>

\* models/schemas.py Listing; id is the scraper's uuid4, unique per listing
Listing(source, k, address) ==
    [id |-> <<source, k>>, source |-> source, address |-> address]

-----------------------------------------------------------------------------
(* services/scraper_orchestrator.py: deduplication *)

RECURSIVE DedupLoop(_, _, _)
DedupLoop(listings, seen_addresses, unique_listings) ==
    IF listings = <<>> THEN unique_listings
    ELSE LET listing == Head(listings)
             normalized_address == _normalize_address(listing.address)
         IN  IF normalized_address \notin seen_addresses
             THEN DedupLoop(Tail(listings),
                            seen_addresses \cup {normalized_address},
                            Append(unique_listings, listing))
             ELSE DedupLoop(Tail(listings), seen_addresses, unique_listings)

\* a dict keyed by normalized address: the slot of the first listing with an
\* address, the value of the last one
LastWithAddress(listings, n) ==
    listings[CHOOSE i \in 1..Len(listings) :
                /\ _normalize_address(listings[i].address) = n
                /\ \A j \in (i+1)..Len(listings) :
                      _normalize_address(listings[j].address) # n]

_deduplicate_listings_keep_last(listings) ==
    LET firsts == DedupLoop(listings, {}, <<>>)
    IN  [i \in 1..Len(firsts) |->
            LastWithAddress(listings, _normalize_address(firsts[i].address))]

\* removing duplicates from the list while iterating over it by index
RECURSIVE RemoveWhileIterating(_, _, _)
RemoveWhileIterating(listings, idx, seen_addresses) ==
    IF idx > Len(listings) THEN listings
    ELSE LET normalized_address == _normalize_address(listings[idx].address)
         IN  IF normalized_address \in seen_addresses
             THEN RemoveWhileIterating(
                      SubSeq(listings, 1, idx - 1)
                          \o SubSeq(listings, idx + 1, Len(listings)),
                      idx + 1, seen_addresses)
             ELSE RemoveWhileIterating(listings, idx + 1,
                      seen_addresses \cup {normalized_address})

_deduplicate_listings_in_place(listings) ==
    RemoveWhileIterating(listings, 1, {})

\* the loop of lines 73-79 with a second key: a listing is also dropped
\* when its id was seen before
RECURSIVE DedupLoopById(_, _, _, _)
DedupLoopById(listings, seen_addresses, seen_ids, unique_listings) ==
    IF listings = <<>> THEN unique_listings
    ELSE LET listing == Head(listings)
             normalized_address == _normalize_address(listing.address)
         IN  IF /\ normalized_address \notin seen_addresses
                /\ listing.id \notin seen_ids
             THEN DedupLoopById(Tail(listings),
                                seen_addresses \cup {normalized_address},
                                seen_ids \cup {listing.id},
                                Append(unique_listings, listing))
             ELSE DedupLoopById(Tail(listings), seen_addresses, seen_ids,
                                unique_listings)

_deduplicate_listings_by_id(listings) == DedupLoopById(listings, {}, {}, <<>>)

\* ScraperOrchestrator._deduplicate_listings
_deduplicate_listings(listings) == DedupLoop(listings, {}, <<>>)

-----------------------------------------------------------------------------
(* agents/*_scraper.py: one source adapter *)

\* BaseScraper.__init__: self.max_results
max_results == 20

\* the slice s[:n] left out
Take_whole_list(s, n) == s

Take(s, n) == SubSeq(s, 1, IF Len(s) < n THEN Len(s) ELSE n)

\* "San Francisco, CA"
DefaultLocation == <<"S","a","n"," ","F","r","a","n","c","i","s","c","o",","," ","C","A">>

\* the location of the resolved preferences, "SF"
LocationSF == <<"S","F">>

\* the address prefixes of _get_mock_listings, per scraper
MockStreets ==
    [zillow |-> <<<<"1","2","3"," ","M","a","r","k","e","t"," ","S","t",","," ">>,
                  <<"4","5","6"," ","V","a","l","e","n","c","i","a"," ","S","t",","," ">>>>,
     redfin |-> <<<<"7","8","9"," ","M","i","s","s","i","o","n"," ","S","t",","," ">>,
                  <<"3","2","1"," ","F","o","l","s","o","m"," ","S","t",","," ">>>>,
     realtor |-> <<<<"5","5","5"," ","H","o","w","a","r","d"," ","S","t",","," ">>,
                   <<"8","8","8"," ","B","r","a","n","n","a","n"," ","S","t",","," ">>>>]

\* ZillowScraper._get_mock_listings (and the Redfin / Realtor ones)
_get_mock_listings(source, preferences) ==
    LET location == IF preferences.location # <<>>
                    THEN preferences.location ELSE DefaultLocation
    IN  [k \in 1..2 |-> Listing(source, k, MockStreets[source][k] \o location)]

\* ZillowScraper.extract_listings: one Listing per property card, at most
\* max_results cards
extract_listings(source, cards) ==
    LET shown == Take(cards, max_results)
    IN  [k \in 1..Len(shown) |-> Listing(source, k, shown[k])]

\* the property cards each platform's result page holds, in page order
SitePage ==
    [zillow |-> <<Addr_MainSt, Addr_OakRd, Addr_ElmAve>>,
     redfin |-> <<Addr_MainStreet, Addr_ElmAve, Addr_OakRoad>>,
     realtor |-> <<Addr_PineDr, Addr_MainUpper, Addr_OakRd>>]

\* what one call of search() meets: a page with the first n cards loaded, an
\* exception inside the try block (goto timeout, browser launch), or an
\* exception inside the except block as well (close_browser)
Behaviours(source) ==
    {[kind |-> "ok", cards |-> Take(SitePage[source], n)] : n \in 0..MaxCards}
        \cup {[kind |-> "error", cards |-> <<>>],
              [kind |-> "handler_error", cards |-> <<>>]}

\* one behaviour for each scraper of self.scrapers
BehaviourVectors ==
    {bs \in [1..Len(Scrapers) ->
                 UNION {Behaviours(Scrapers[i]) : i \in 1..Len(Scrapers)}] :
        \A i \in 1..Len(Scrapers) : bs[i] \in Behaviours(Scrapers[i])}

ExceptionResult == [type |-> "Exception", value |-> <<>>]

ListResult(l) == [type |-> "list", value |-> l]

\* ZillowScraper.search (RedfinScraper.search, RealtorScraper.search): the
\* value asyncio.gather(return_exceptions=True) gets for the call.  With
\* preferences None, build_search_url raises inside the try block and
\* _get_mock_listings raises inside the except block.
search(source, preferences, b) ==
    IF preferences = None THEN ExceptionResult
    ELSE IF b.kind = "ok"
    THEN ListResult(Take(extract_listings(source, b.cards), max_results))
    ELSE IF b.kind = "error"
         THEN ListResult(_get_mock_listings(source, preferences[1]))
         ELSE ExceptionResult

-----------------------------------------------------------------------------
(* services/scraper_orchestrator.py: the candidate collector *)

RECURSIVE CombineLoop(_, _, _)
CombineLoop(rs, i, all_listings) ==
    IF i > Len(rs) THEN all_listings
    ELSE IF rs[i].type = "Exception" THEN CombineLoop(rs, i + 1, all_listings)
    ELSE IF rs[i].type = "list"
         THEN CombineLoop(rs, i + 1, all_listings \o rs[i].value)
         ELSE CombineLoop(rs, i + 1, all_listings)

\* search_all_platforms, lines 40-51: the merged list before deduplication
all_listings(rs) == CombineLoop(rs, 1, <<>>)

\* search_all_platforms: what the call returns for the gathered results
search_all_platforms(rs) == _deduplicate_listings(all_listings(rs))

-----------------------------------------------------------------------------
(* Python dicts and floats *)

EmptyDict == [k \in {} |-> 0]

Get(d, k, default) == IF k \in DOMAIN d THEN d[k] ELSE default

\* d[k] = v for every key k of the record upd
Update(d, upd) ==
    [k \in DOMAIN d \cup DOMAIN upd |-> IF k \in DOMAIN upd THEN upd[k] ELSE d[k]]

RECURSIVE GCD(_, _)
GCD(a, b) == IF b = 0 THEN a ELSE GCD(b, a % b)

\* the exact value n/d of a float expression, in lowest terms
Rat(n, d) == LET g == GCD(n, d) IN [num |-> n \div g, den |-> d \div g]

Num(k) == Rat(k, 1)

RatLeq(p, q) == p.num * q.den <= q.num * p.den

-----------------------------------------------------------------------------
(* api/search.py: run_search_pipeline *)

\* the search session ids uuid4 hands out, and one id that was never created
SessionIds == {"s1"}

UnknownSession == "s0"

\* chat ids a start request may carry: with resolved preferences, without,
\* and one that is not in chat_sessions
ChatIds == {"chat_ready", "chat_empty", "chat_gone"}

Preferences == Some([location |-> LocationSF])

\* final_score values the compiler gives (FinalReport: 0 <= final_score <= 10)
Scores == {4, 8}

RECURSIVE InsertDesc(_, _)
InsertDesc(sorted, r) ==
    IF sorted = <<>> THEN <<r>>
    ELSE IF Head(sorted).final_score >= r.final_score
         THEN <<Head(sorted)>> \o InsertDesc(Tail(sorted), r)
         ELSE <<r>> \o sorted

RECURSIVE InsertAsc(_, _)
InsertAsc(sorted, r) ==
    IF sorted = <<>> THEN <<r>>
    ELSE IF Head(sorted).final_score <= r.final_score
         THEN <<Head(sorted)>> \o InsertAsc(Tail(sorted), r)
         ELSE <<r>> \o sorted

RECURSIVE SortAscLoop(_, _)
SortAscLoop(reports, sorted) ==
    IF reports = <<>> THEN sorted
    ELSE SortAscLoop(Tail(reports), InsertAsc(sorted, Head(reports)))

\* sorted(final_reports, key=...)[::-1]: equal scores come out reversed
sort_ascending_then_reverse(reports) ==
    LET asc == SortAscLoop(reports, <<>>)
    IN  [i \in 1..Len(asc) |-> asc[Len(asc) + 1 - i]]

RECURSIVE SortDescLoop(_, _)
SortDescLoop(reports, sorted) ==
    IF reports = <<>> THEN sorted
    ELSE SortDescLoop(Tail(reports), InsertDesc(sorted, Head(reports)))

\* final_reports.sort(key=lambda x: x.final_score, reverse=True), line 145:
\* list.sort is stable, also with reverse=True
sort_final_reports(reports) == SortDescLoop(reports, <<>>)

NewTask(c) ==
    [pc |-> "queued", chat_session_id |-> c, preferences |-> None,
     listings |-> <<>>, i |-> 0, evaluated_listings |-> <<>>,
     argued_listings |-> <<>>, final_reports |-> <<>>]

NoCalls ==
    [collector |-> 0, evaluator |-> 0, arguer |-> 0, compiler |-> 0,
     evaluator_raised |-> 0, arguer_raised |-> 0, compiler_raised |-> 0,
     adapters |-> <<>>]

Step(sess, t) == [sess |-> sess, t |-> t]

\* the handler written as a reset of the session: progress back to 0 and the
\* listings dropped
pipeline_error_resetting(sess, t, message) ==
    Step(Update(sess, [status |-> "error", message |-> message,
                       progress |-> Num(0), listings |-> <<>>]),
         [t EXCEPT !.pc = "done"])

\* the handler written with its print alone: the run ends and the session
\* keeps the status it had
pipeline_error_silent(sess, t, message) ==
    Step(sess, [t EXCEPT !.pc = "done"])

\* lines 158-161: the handler of the outer try
pipeline_error(sess, t, message) ==
    Step(Update(sess, [status |-> "error", message |-> message]),
         [t EXCEPT !.pc = "done"])

\* status complete written when the last report is compiled, the result
\* collections only after one more await
finish_status_first(sess, t) ==
    Step(Update(sess, [status |-> "complete",
                       message |-> "Analysis complete",
                       progress |-> Num(100)]),
         [t EXCEPT !.pc = "commit",
                   !.final_reports = sort_final_reports(t.final_reports)])

\* lines 144-156: sort, then status complete and the four collections
finish(sess, t) ==
    LET final_reports == sort_final_reports(t.final_reports)
    IN  Step(Update(sess, [status |-> "complete",
                           message |-> "Analysis complete",
                           progress |-> Num(100),
                           listings |-> t.listings,
                           evaluated_listings |-> t.evaluated_listings,
                           argued_listings |-> t.argued_listings,
                           final_reports |-> final_reports]),
             [t EXCEPT !.pc = "done", !.final_reports = final_reports])

\* line 121 written as a copy of line 92: the compilation stage starts at 70
enter_compile_progress_70(sess, t) ==
    LET s1 == Update(sess, [status |-> "evaluating",
                            message |-> "Compiling final reports...",
                            progress |-> Num(70)])
        t1 == [t EXCEPT !.final_reports = <<>>]
    IN  IF t.argued_listings = <<>>
        THEN finish(s1, t1)
        ELSE Step(s1, [t1 EXCEPT !.pc = "compile", !.i = 1])

\* lines 118-125, up to the first compile_report call
enter_compile(sess, t) ==
    LET s1 == Update(sess, [status |-> "evaluating",
                            message |-> "Compiling final reports...",
                            progress |-> Num(85)])
        t1 == [t EXCEPT !.final_reports = <<>>]
    IN  IF t.argued_listings = <<>>
        THEN finish(s1, t1)
        ELSE Step(s1, [t1 EXCEPT !.pc = "compile", !.i = 1])

\* the second status label written as an earlier one
enter_argue_reverting(sess, t) ==
    LET s1 == Update(sess, [status |-> "scraping",
                            message |-> "Generating pro/con arguments...",
                            progress |-> Num(70)])
        t1 == [t EXCEPT !.argued_listings = <<>>]
    IN  IF t.evaluated_listings = <<>>
        THEN enter_compile(s1, t1)
        ELSE Step(s1, [t1 EXCEPT !.pc = "argue", !.i = 1])

\* lines 89-96, up to the first generate_arguments call
enter_argue(sess, t) ==
    LET s1 == Update(sess, [status |-> "evaluating",
                            message |-> "Generating pro/con arguments...",
                            progress |-> Num(70)])
        t1 == [t EXCEPT !.argued_listings = <<>>]
    IN  IF t.evaluated_listings = <<>>
        THEN enter_compile(s1, t1)
        ELSE Step(s1, [t1 EXCEPT !.pc = "argue", !.i = 1])

\* lines 65-72, up to the first evaluate_listing call
enter_evaluate(sess, t, listings) ==
    LET s1 == Update(sess, [status |-> "evaluating",
                            message |-> "Evaluating listings...",
                            progress |-> Num(50)])
        t1 == [t EXCEPT !.listings = listings, !.evaluated_listings = <<>>]
    IN  IF listings = <<>>
        THEN enter_argue(s1, t1)
        ELSE Step(s1, [t1 EXCEPT !.pc = "evaluate", !.i = 1])

\* the for statements of lines 72, 96 and 125: the next item or the next stage
next_evaluate(sess, t) ==
    IF t.i < Len(t.listings)
    THEN Step(sess, [t EXCEPT !.i = t.i + 1])
    ELSE enter_argue(sess, t)

next_argue(sess, t) ==
    IF t.i < Len(t.evaluated_listings)
    THEN Step(sess, [t EXCEPT !.i = t.i + 1])
    ELSE enter_compile(sess, t)

next_compile(sess, t) ==
    IF t.i < Len(t.argued_listings)
    THEN Step(sess, [t EXCEPT !.i = t.i + 1])
    ELSE finish(sess, t)

Commit(s, step) ==
    /\ search_sessions' = [search_sessions EXCEPT ![s] = step.sess]
    /\ task' = [task EXCEPT ![s] = step.t]

Bump(s, counter) ==
    calls' = [calls EXCEPT ![s][counter] = @ + 1]

\* start_search, lines 164-185
start_search(sid, c) ==
    /\ sid \notin DOMAIN search_sessions
    /\ search_sessions' = search_sessions @@
           (sid :> [status |-> "pending", chat_session_id |-> c,
                    message |-> "Initializing search...",
                    progress |-> Num(0), listings |-> <<>>])
    /\ task' = task @@ (sid :> NewTask(c))
    /\ calls' = calls @@ (sid :> NoCalls)
    /\ response' = [endpoint |-> "start", session |-> sid, code |-> 200,
                    body |-> [search_session_id |-> sid, status |-> "pending"]]
    /\ UNCHANGED <<chat_sessions, collectorVars, dedupVars, serviceVars>>

\* the preferences check left out: the run goes on with preferences None
begin_unchecked(sess, t) ==
    IF t.chat_session_id \notin DOMAIN chat_sessions
    THEN pipeline_error(sess, t, "Chat session not found")
    ELSE Step(Update(sess, [status |-> "scraping",
                            message |-> "Searching real estate platforms...",
                            progress |-> Num(20)]),
              [t EXCEPT !.pc = "scrape",
                        !.preferences = chat_sessions[t.chat_session_id]])

\* lines 41-62, up to the search_all_platforms call
begin(sess, t) ==
    IF t.chat_session_id \notin DOMAIN chat_sessions
    THEN Step(Update(sess, [status |-> "error",
                            message |-> "Chat session not found"]),
              [t EXCEPT !.pc = "done"])
    ELSE LET preferences == chat_sessions[t.chat_session_id]
         IN  IF preferences = None
             THEN Step(Update(sess, [status |-> "error",
                                     message |-> "No preferences found"]),
                       [t EXCEPT !.pc = "done"])
             ELSE Step(Update(sess,
                           [status |-> "scraping",
                            message |-> "Searching real estate platforms...",
                            progress |-> Num(20)]),
                       [t EXCEPT !.pc = "scrape", !.preferences = preferences])

\* the background task starts: run_search_pipeline to its first await
pipeline_begin(s) ==
    /\ s \in DOMAIN task
    /\ task[s].pc = "queued"
    /\ LET step == begin(search_sessions[s], task[s])
       IN  /\ Commit(s, step)
           /\ IF step.t.pc = "scrape"
              THEN Bump(s, "collector")
              ELSE UNCHANGED calls
    /\ UNCHANGED <<chat_sessions, response, collectorVars, dedupVars, serviceVars>>

\* what the three search() calls of one search_all_platforms call return
Gathered(preferences, bs) ==
    [i \in 1..Len(Scrapers) |-> search(Scrapers[i], preferences, bs[i])]

Kinds(bs) == [i \in 1..Len(bs) |-> bs[i].kind]

\* line 62 returns; lines 63-74 up to the first evaluate_listing call (or,
\* with no listing, all the way to line 156)
scrape_return(s, bs) ==
    /\ s \in DOMAIN task
    /\ task[s].pc = "scrape"
    /\ LET listings ==
               search_all_platforms(Gathered(task[s].preferences, bs))
       IN  /\ Len(listings) <= MaxListings
           /\ Commit(s, enter_evaluate(search_sessions[s], task[s], listings))
           /\ calls' = [calls EXCEPT
                  ![s].adapters = Kinds(bs),
                  ![s].evaluator = IF listings = <<>> THEN 0 ELSE 1]
    /\ UNCHANGED <<chat_sessions, response, collectorVars, dedupVars, serviceVars>>

\* line 62 raises: lines 158-161
scrape_raises(s) ==
    /\ s \in DOMAIN task
    /\ task[s].pc = "scrape"
    /\ Commit(s, pipeline_error(search_sessions[s], task[s],
                                "search_all_platforms failed"))
    /\ UNCHANGED <<chat_sessions, calls, response, collectorVars, dedupVars, serviceVars>>

\* the counter of the call the step has arrived at, if it arrived at one
Arrive(s, step, raised) ==
    LET c1 == IF raised = "" THEN calls[s]
              ELSE [calls[s] EXCEPT ![raised] = @ + 1]
        c2 == IF step.t.pc = "evaluate" THEN [c1 EXCEPT !.evaluator = @ + 1]
              ELSE IF step.t.pc = "argue" THEN [c1 EXCEPT !.arguer = @ + 1]
              ELSE IF step.t.pc = "compile" THEN [c1 EXCEPT !.compiler = @ + 1]
              ELSE c1
    IN  calls' = [calls EXCEPT ![s] = c2]

EvaluationReport(listing) == [listing_id |-> listing.id]

ArgumentReport(listing) == [listing_id |-> listing.id]

\* line 81 written with the index of enumerate as it is, "20.0 * i"
evaluate_return_zero_based(s) ==
    /\ s \in DOMAIN task
    /\ task[s].pc = "evaluate"
    /\ LET t == task[s]
           listing == t.listings[t.i]
           t1 == [t EXCEPT !.evaluated_listings =
                      Append(@, [listing |-> listing,
                                 evaluation |-> EvaluationReport(listing)])]
           s1 == Update(search_sessions[s],
                     [progress |-> Rat(50 * Len(t.listings) + 20 * (t.i - 1),
                                       Len(t.listings))])
           step == next_evaluate(s1, t1)
       IN  Commit(s, step) /\ Arrive(s, step, "")
    /\ UNCHANGED <<chat_sessions, response, collectorVars, dedupVars, serviceVars>>

\* lines 74-84: evaluate_listing returned for listings[i]
evaluate_return(s) ==
    /\ s \in DOMAIN task
    /\ task[s].pc = "evaluate"
    /\ LET t == task[s]
           listing == t.listings[t.i]
           t1 == [t EXCEPT !.evaluated_listings =
                      Append(@, [listing |-> listing,
                                 evaluation |-> EvaluationReport(listing)])]
           s1 == Update(search_sessions[s],
                     [progress |-> Rat(50 * Len(t.listings) + 20 * t.i,
                                       Len(t.listings))])
           step == next_evaluate(s1, t1)
       IN  Commit(s, step) /\ Arrive(s, step, "")
    /\ UNCHANGED <<chat_sessions, response, collectorVars, dedupVars, serviceVars>>

\* the exception of one listing caught by the handler of the whole run
evaluate_raises_aborting(sess, t) ==
    pipeline_error(sess, t, "evaluate_listing failed")

\* the handler of lines 85-87 written as a retry: the same listing is
\* evaluated again
evaluate_raises_step_retrying(sess, t) == Step(sess, t)

\* the handler of lines 85-87 written as a fallback: the listing goes on
\* with a report that no evaluate_listing call produced for it
evaluate_raises_step_defaulting(sess, t) ==
    next_evaluate(sess,
        [t EXCEPT !.evaluated_listings =
             Append(@, [listing |-> t.listings[t.i],
                        evaluation |-> [listing_id |-> <<"none", 0>>]])])

\* lines 85-87: evaluate_listing raised for listings[i]
evaluate_raises_step(sess, t) == next_evaluate(sess, t)

evaluate_raises(s) ==
    /\ s \in DOMAIN task
    /\ task[s].pc = "evaluate"
    /\ LET step == evaluate_raises_step(search_sessions[s], task[s])
       IN  Commit(s, step) /\ Arrive(s, step, "evaluator_raised")
    /\ UNCHANGED <<chat_sessions, response, collectorVars, dedupVars, serviceVars>>

\* lines 98-113: generate_arguments returned for evaluated_listings[i]
argue_return(s) ==
    /\ s \in DOMAIN task
    /\ task[s].pc = "argue"
    /\ LET t == task[s]
           eval_listing == t.evaluated_listings[t.i]
           t1 == [t EXCEPT !.argued_listings =
                      Append(@, [listing |-> eval_listing.listing,
                                 evaluation |-> eval_listing.evaluation,
                                 arguments |->
                                     ArgumentReport(eval_listing.listing)])]
           s1 == Update(search_sessions[s],
                     [progress |->
                         Rat(70 * Len(t.evaluated_listings) + 15 * t.i,
                             Len(t.evaluated_listings))])
           step == next_argue(s1, t1)
       IN  Commit(s, step) /\ Arrive(s, step, "")
    /\ UNCHANGED <<chat_sessions, response, collectorVars, dedupVars, serviceVars>>

\* lines 114-116: generate_arguments raised for evaluated_listings[i]
argue_raises(s) ==
    /\ s \in DOMAIN task
    /\ task[s].pc = "argue"
    /\ LET step == next_argue(search_sessions[s], task[s])
       IN  Commit(s, step) /\ Arrive(s, step, "arguer_raised")
    /\ UNCHANGED <<chat_sessions, response, collectorVars, dedupVars, serviceVars>>

\* CompilationAgent.compile_report, lines 100-107
FinalReport(argued_listing, final_score) ==
    [listing |-> argued_listing.listing,
     evaluation |-> argued_listing.evaluation,
     arguments |-> argued_listing.arguments,
     final_score |-> final_score]

\* lines 127-139: compile_report returned for argued_listings[i]
compile_return(s, final_score) ==
    /\ s \in DOMAIN task
    /\ task[s].pc = "compile"
    /\ LET t == task[s]
           argued_listing == t.argued_listings[t.i]
           t1 == [t EXCEPT !.final_reports =
                      Append(@, FinalReport(argued_listing, final_score))]
           s1 == Update(search_sessions[s],
                     [progress |->
                         Rat(85 * Len(t.argued_listings) + 10 * t.i,
                             Len(t.argued_listings))])
           step == next_compile(s1, t1)
       IN  Commit(s, step) /\ Arrive(s, step, "")
    /\ UNCHANGED <<chat_sessions, response, collectorVars, dedupVars, serviceVars>>

\* lines 140-142: compile_report raised for argued_listings[i]
compile_raises(s) ==
    /\ s \in DOMAIN task
    /\ task[s].pc = "compile"
    /\ LET step == next_compile(search_sessions[s], task[s])
       IN  Commit(s, step) /\ Arrive(s, step, "compiler_raised")
    /\ UNCHANGED <<chat_sessions, response, collectorVars, dedupVars, serviceVars>>

-----------------------------------------------------------------------------
(* api/search.py: the endpoints a caller polls *)

\* SearchStatusResponse built by get_search_status, lines 195-203
StatusProjection(session) ==
    [status |-> Get(session, "status", "pending"),
     progress |-> Get(session, "progress", Num(0)),
     message |-> Get(session, "message", "Processing..."),
     listings_found |-> Len(Get(session, "listings", <<>>)),
     listings_evaluated |-> Len(Get(session, "evaluated_listings", <<>>))]

NotFound(endpoint, sid) ==
    [endpoint |-> endpoint, session |-> sid, code |-> 404,
     body |-> "Search session not found"]

\* get_search_status, lines 188-203
get_search_status(sid) ==
    /\ response' =
           IF sid \notin DOMAIN search_sessions
           THEN NotFound("status", sid)
           ELSE [endpoint |-> "status", session |-> sid, code |-> 200,
                 body |-> StatusProjection(search_sessions[sid])]
    /\ UNCHANGED <<chat_sessions, search_sessions, task, calls,
                   collectorVars, dedupVars, serviceVars>>

\* get_final_results, lines 244-260
get_final_results(sid) ==
    /\ response' =
           IF sid \notin DOMAIN search_sessions
           THEN NotFound("final-results", sid)
           ELSE IF Get(search_sessions[sid], "status", None) # "complete"
           THEN [endpoint |-> "final-results", session |-> sid, code |-> 400,
                 body |-> "Search is not complete yet"]
           ELSE [endpoint |-> "final-results", session |-> sid, code |-> 200,
                 body |-> Get(search_sessions[sid], "final_reports", <<>>)]
    /\ UNCHANGED <<chat_sessions, search_sessions, task, calls,
                   collectorVars, dedupVars, serviceVars>>

-----------------------------------------------------------------------------
(* services/recommendation_service.py: the floats of the preference        *)
(* learner, as exact rationals                                              *)

\* p + q over the least common denominator, so that no product outgrows
\* the integers of the checker
RatAdd(p, q) ==
    LET den == (p.den * q.den) \div GCD(p.den, q.den)
    IN  Rat(p.num * (den \div p.den) + q.num * (den \div q.den), den)

RatMul(p, q) == Rat(p.num * q.num, p.den * q.den)

\* p < q, by integer parts first and then by the fractional parts'
\* reciprocals (no product of a numerator and a denominator)
RECURSIVE RatLess(_, _)
RatLess(p, q) ==
    LET fp == p.num \div p.den
        fq == q.num \div q.den
        rp == p.num % p.den
        rq == q.num % q.den
    IN  IF fp # fq THEN fp < fq
        ELSE IF rq = 0 THEN FALSE
        ELSE IF rp = 0 THEN TRUE
        ELSE RatLess([num |-> q.den, den |-> rq], [num |-> p.den, den |-> rp])

\* max(a, b) returns a unless b is greater
RatMax(a, b) == IF RatLess(a, b) THEN b ELSE a

\* min(a, b) returns a unless b is smaller
RatMin(a, b) == IF RatLess(b, a) THEN b ELSE a

RatAbs(p) == IF p.num < 0 THEN [num |-> 0 - p.num, den |-> p.den] ELSE p

RECURSIVE Sum(_)
Sum(xs) == IF xs = <<>> THEN 0 ELSE Head(xs) + Sum(Tail(xs))

RECURSIVE ISqrtLoop(_, _, _)
ISqrtLoop(n, lo, hi) ==
    IF lo = hi THEN lo
    ELSE LET mid == (lo + hi + 1) \div 2
         IN  IF mid * mid <= n THEN ISqrtLoop(n, mid, hi)
             ELSE ISqrtLoop(n, lo, mid - 1)

\* the largest integer whose square is at most n
ISqrt(n) == ISqrtLoop(n, 0, IF n < 46340 THEN n ELSE 46340)

\* the square root of a rational: exact when it is rational, else rounded
\* toward zero to two decimals
SqrtRat(q) ==
    LET sn == ISqrt(q.num)
        sd == ISqrt(q.den)
    IN  IF sn * sn = q.num /\ sd * sd = q.den THEN Rat(sn, sd)
        ELSE Rat(ISqrt((q.num * 10000) \div q.den), 100)

RECURSIVE CommonDen(_)
CommonDen(values) ==
    IF values = <<>> THEN 1
    ELSE LET rest == CommonDen(Tail(values))
             den == Head(values).den
         IN  (rest * den) \div GCD(rest, den)

\* the values of one feature over the events, scaled to integers by their
\* common denominator (the correlation does not change under scaling)
Scaled(values) ==
    LET d == CommonDen(values)
    IN  [i \in 1..Len(values) |-> values[i].num * (d \div values[i].den)]

\* n * sum(x*y) - sum(x) * sum(y): n*n times the covariance of x and y
Covariance(x, y) ==
    Len(x) * Sum([i \in 1..Len(x) |-> x[i] * y[i]]) - Sum(x) * Sum(y)

\* np.std(feature_values) == 0, line 313
np_std_is_zero(feature_values) ==
    LET x == Scaled(feature_values) IN Covariance(x, x) = 0

\* np.corrcoef(feature_values, y)[0, 1], line 318: None stands for NaN, which
\* numpy gives when either argument has no variance
np_corrcoef(feature_values, y) ==
    LET x == Scaled(feature_values)
        cxy == Covariance(x, y)
        cxx == Covariance(x, x)
        cyy == Covariance(y, y)
    IN  IF cxx * cyy = 0 THEN None
        ELSE LET r == SqrtRat(Rat(cxy * cxy, cxx * cyy))
             IN  Some(IF cxy < 0 THEN [num |-> 0 - r.num, den |-> r.den]
                      ELSE r)

-----------------------------------------------------------------------------
(* services/recommendation_service.py: RecommendationService *)

T_house == <<"h","o","u","s","e">>

T_condo == <<"c","o","n","d","o">>

T_townhouse == <<"t","o","w","n","h","o","u","s","e">>

T_unknown == <<"u","n","k","n","o","w","n">>

\* "x or default" for an Optional number: None and 0 are both falsy
OrDefault(x, default) == IF x = None \/ x = Some(0) THEN default ELSE x[1]

\* _extract_features, lines 208-238
_extract_features(listing, final_report) ==
    LET pros == Len(final_report.arguments.pro_arguments)
        cons == Len(final_report.arguments.con_arguments)
        type == Lower(listing.property_type)
    IN  [price |-> Rat(listing.price, 1000000),
         bedrooms |-> Num(listing.bedrooms),
         bathrooms |-> listing.bathrooms,
         sqft |-> Rat(listing.sqft, 1000),
         days_on_market |-> Rat(OrDefault(listing.days_on_market, 30), 100),
         preference_match |->
             Num(final_report.evaluation.preference_match_score),
         crime_score |-> Num(OrDefault(final_report.evaluation.crime_score, 5)),
         school_score |-> Num(OrDefault(final_report.evaluation.school_score, 5)),
         walkability_score |->
             Num(OrDefault(final_report.evaluation.walkability_score, 5)),
         affordability_score |->
             Num(OrDefault(final_report.evaluation.affordability_score, 5)),
         final_score |-> Num(final_report.final_score),
         pro_count |-> Num(pros),
         con_count |-> Num(cons),
         argument_balance |-> Num(pros - cons),
         is_house |-> IF type = T_house THEN Num(1) ELSE Num(0),
         is_condo |-> IF type = T_condo THEN Num(1) ELSE Num(0),
         is_townhouse |-> IF type = T_townhouse THEN Num(1) ELSE Num(0)]

\* lines 321-322 written "correlation = 1.0": an undefined correlation
\* counts as a full one
_calculate_feature_weights_nan_as_one(feature_vectors, labels) ==
    IF feature_vectors = <<>> THEN EmptyDict
    ELSE [feature_name \in DOMAIN feature_vectors[1] |->
            LET feature_values ==
                    [i \in 1..Len(feature_vectors) |->
                        feature_vectors[i][feature_name]]
            IN  IF np_std_is_zero(feature_values) THEN Num(0)
                ELSE LET correlation == np_corrcoef(feature_values, labels)
                     IN  IF correlation = None THEN Num(1)
                         ELSE correlation[1]]

\* _calculate_feature_weights, lines 299-326
_calculate_feature_weights(feature_vectors, labels) ==
    IF feature_vectors = <<>> THEN EmptyDict
    ELSE [feature_name \in DOMAIN feature_vectors[1] |->
            LET feature_values ==
                    [i \in 1..Len(feature_vectors) |->
                        feature_vectors[i][feature_name]]
            IN  IF np_std_is_zero(feature_values) THEN Num(0)
                ELSE LET correlation == np_corrcoef(feature_values, labels)
                     IN  IF correlation = None THEN Num(0)
                         ELSE correlation[1]]

RECURSIVE AsList(_)
AsList(S) ==
    IF S = {} THEN <<>>
    ELSE LET x == CHOOSE y \in S : TRUE IN <<x>> \o AsList(S \ {x})

\* the exact sum of the terms: exact addition is associative, and the sum is
\* taken by halves
RECURSIVE RatSum(_)
RatSum(terms) ==
    IF terms = <<>> THEN Num(0)
    ELSE IF Len(terms) = 1 THEN terms[1]
    ELSE LET half == Len(terms) \div 2
         IN  RatAdd(RatSum(SubSeq(terms, 1, half)),
                    RatSum(SubSeq(terms, half + 1, Len(terms))))

\* lines 371-375: the sum of feature_value * weights[feature_name] over the
\* features that have a weight
weighted_sum(names, features, weights) ==
    LET weighted == AsList(names \cap DOMAIN weights)
    IN  RatSum([k \in 1..Len(weighted) |->
                   RatMul(features[weighted[k]], weights[weighted[k]])])

\* _calculate_personalized_score, lines 369-379, returned without the clamp
\* of line 382
_calculate_personalized_score_unclamped(features, weights) ==
    LET base_score == Get(features, "final_score", Num(5))
    IN  RatAdd(RatMul(Rat(7, 10), base_score),
               RatMul(Rat(3, 10),
                      RatAdd(Num(5),
                             weighted_sum(DOMAIN features, features,
                                          weights))))

\* _calculate_personalized_score, lines 369-382
_calculate_personalized_score(features, weights) ==
    LET base_score == Get(features, "final_score", Num(5))
        personalized_score ==
            RatAdd(RatMul(Rat(7, 10), base_score),
                   RatMul(Rat(3, 10),
                          RatAdd(Num(5),
                                 weighted_sum(DOMAIN features, features,
                                              weights))))
    IN  RatMax(Num(0), RatMin(Num(10), personalized_score))

\* d[k] = v
Put(d, k, v) == [x \in DOMAIN d \cup {k} |-> IF x = k THEN v ELSE d[x]]

Range(s) == {s[i] : i \in 1..Len(s)}

\* collection.get() without the where clause: the entries of every session
GetWhere_any_session(collection, session_id) ==
    LET ids == AsList(DOMAIN collection)
    IN  [i \in 1..Len(ids) |-> collection[ids[i]]]

\* collection.get(where={"session_id": session_id}): the entries of the
\* session, in the order the store hands them out
GetWhere(collection, session_id) ==
    LET ids == AsList({id \in DOMAIN collection :
                          collection[id].metadata.session_id = session_id})
    IN  [i \in 1..Len(ids) |-> collection[ids[i]]]

\* _get_preference_weights, lines 338-347
_get_preference_weights(weights_collection, session_id) ==
    IF session_id \notin DOMAIN weights_collection THEN None
    ELSE Some(weights_collection[session_id].document.weights)

\* "not weights", line 99: None and the empty dict are both falsy
NoWeights(weights) == weights = None \/ DOMAIN weights[1] = {}

\* the guard of line 254 written "< 1": one event is enough to store weights
_update_preference_weights_from_one(fc, weights_collection, session_id) ==
    LET rows == GetWhere(fc, session_id)
    IN  IF rows = <<>> \/ Len(rows) < 1 THEN weights_collection
        ELSE LET feature_vectors ==
                     [i \in 1..Len(rows) |-> rows[i].document.features]
                 labels ==
                     [i \in 1..Len(rows) |->
                         IF rows[i].metadata.action = "like" THEN 1
                         ELSE 0 - 1]
                 weights == _calculate_feature_weights(feature_vectors, labels)
             IN  Put(weights_collection, session_id,
                     [document |-> [session_id |-> session_id,
                                    weights |-> weights,
                                    sample_size |-> Len(labels)],
                      metadata |-> [session_id |-> session_id,
                                    sample_size |-> Len(labels)]])

\* _update_preference_weights, lines 249-282: the weights collection after
\* the call
_update_preference_weights(fc, weights_collection, session_id) ==
    LET rows == GetWhere(fc, session_id)
    IN  IF rows = <<>> \/ Len(rows) < 2 THEN weights_collection
        ELSE LET feature_vectors ==
                     [i \in 1..Len(rows) |-> rows[i].document.features]
                 labels ==
                     [i \in 1..Len(rows) |->
                         IF rows[i].metadata.action = "like" THEN 1
                         ELSE 0 - 1]
                 weights == _calculate_feature_weights(feature_vectors, labels)
             IN  Put(weights_collection, session_id,
                     [document |-> [session_id |-> session_id,
                                    weights |-> weights,
                                    sample_size |-> Len(labels)],
                      metadata |-> [session_id |-> session_id,
                                    sample_size |-> Len(labels)]])

FeedbackEntry(feedback, listing, final_report) ==
    [document |-> [session_id |-> feedback.session_id,
                   listing_id |-> feedback.listing_id,
                   action |-> feedback.action,
                   features |-> _extract_features(listing, final_report)],
     metadata |-> [session_id |-> feedback.session_id,
                   listing_id |-> feedback.listing_id,
                   action |-> feedback.action,
                   price |-> listing.price,
                   bedrooms |-> listing.bedrooms,
                   bathrooms |-> listing.bathrooms,
                   sqft |-> listing.sqft,
                   final_score |-> final_report.final_score]]

\* the id of line 71 with the action in it: f"{session_id}_{listing_id}_{action}"
record_feedback_id_with_action(fc, weights_collection, feedback, listing, final_report) ==
    LET feedback_id ==
            <<feedback.session_id, feedback.listing_id, feedback.action>>
        fc2 == Put(fc, feedback_id,
                   FeedbackEntry(feedback, listing, final_report))
    IN  [feedback_collection |-> fc2,
         preference_weights_collection |->
             _update_preference_weights(fc2, weights_collection,
                                        feedback.session_id)]

\* line 79 moved before the upsert of lines 72-76: the weights are computed
\* from the history without the event being recorded
record_feedback_weights_first(fc, weights_collection, feedback, listing, final_report) ==
    LET feedback_id == <<feedback.session_id, feedback.listing_id>>
    IN  [feedback_collection |->
             Put(fc, feedback_id,
                 FeedbackEntry(feedback, listing, final_report)),
         preference_weights_collection |->
             _update_preference_weights(fc, weights_collection,
                                        feedback.session_id)]

\* record_feedback, lines 47-79: the two collections after the call
record_feedback(fc, weights_collection, feedback, listing, final_report) ==
    LET feedback_id == <<feedback.session_id, feedback.listing_id>>
        fc2 == Put(fc, feedback_id,
                   FeedbackEntry(feedback, listing, final_report))
    IN  [feedback_collection |-> fc2,
         preference_weights_collection |->
             _update_preference_weights(fc2, weights_collection,
                                        feedback.session_id)]

RECURSIVE InsertScored(_, _)
InsertScored(sorted, pair) ==
    IF sorted = <<>> THEN <<pair>>
    ELSE IF ~RatLess(Head(sorted).score, pair.score)
         THEN <<Head(sorted)>> \o InsertScored(Tail(sorted), pair)
         ELSE <<pair>> \o sorted

RECURSIVE SortScoredLoop(_, _)
SortScoredLoop(pairs, sorted) ==
    IF pairs = <<>> THEN sorted
    ELSE SortScoredLoop(Tail(pairs), InsertScored(sorted, Head(pairs)))

\* lines 104-113: score every report, stable sort by score, highest first
rank_by_personalized_score(listings, weights) ==
    LET scored_listings ==
            [i \in 1..Len(listings) |->
                [score |-> _calculate_personalized_score(
                               _extract_features(listings[i].listing,
                                                 listings[i]),
                               weights),
                 report |-> listings[i]]]
        sorted == SortScoredLoop(scored_listings, <<>>)
    IN  [i \in 1..Len(sorted) |-> sorted[i].report]

\* line 101 written "return listings": the input order when nothing is learned
get_ranked_listings_unsorted(weights_collection, session_id, listings) ==
    LET weights == _get_preference_weights(weights_collection, session_id)
    IN  IF NoWeights(weights) THEN listings
        ELSE rank_by_personalized_score(listings, weights[1])

\* get_ranked_listings, lines 96-113
get_ranked_listings(weights_collection, session_id, listings) ==
    LET weights == _get_preference_weights(weights_collection, session_id)
    IN  IF NoWeights(weights) THEN SortDescLoop(listings, <<>>)
        ELSE rank_by_personalized_score(listings, weights[1])

\* the filter of lines 133-136 left out
get_next_listing_unfiltered(weights_collection, session_id, available_listings, seen_listing_ids) ==
    LET unseen_listings == available_listings
    IN  IF unseen_listings = <<>> THEN None
        ELSE LET ranked == get_ranked_listings(weights_collection, session_id,
                                               unseen_listings)
             IN  IF ranked # <<>> THEN Some(ranked[1]) ELSE None

\* get_next_listing, lines 132-145
get_next_listing(weights_collection, session_id, available_listings, seen_listing_ids) ==
    LET Unseen(report) == report.listing.id \notin Range(seen_listing_ids)
        unseen_listings == SelectSeq(available_listings, Unseen)
    IN  IF unseen_listings = <<>> THEN None
        ELSE LET ranked == get_ranked_listings(weights_collection, session_id,
                                               unseen_listings)
             IN  IF ranked # <<>> THEN Some(ranked[1]) ELSE None

\* the feature names in the order _extract_features builds its dict
FeatureNames ==
    <<"price", "bedrooms", "bathrooms", "sqft", "days_on_market",
      "preference_match", "crime_score", "school_score", "walkability_score",
      "affordability_score", "final_score", "pro_count", "con_count",
      "argument_balance", "is_house", "is_condo", "is_townhouse">>

RECURSIVE InsertByAbs(_, _, _)
InsertByAbs(sorted, name, weights) ==
    IF sorted = <<>> THEN <<name>>
    ELSE IF ~RatLess(RatAbs(weights[Head(sorted)]), RatAbs(weights[name]))
         THEN <<Head(sorted)>> \o InsertByAbs(Tail(sorted), name, weights)
         ELSE <<name>> \o sorted

RECURSIVE SortByAbsLoop(_, _, _)
SortByAbsLoop(names, sorted, weights) ==
    IF names = <<>> THEN sorted
    ELSE SortByAbsLoop(Tail(names),
                       InsertByAbs(sorted, Head(names), weights), weights)

\* lines 178-186: the five features with the largest absolute weight
learned_preferences(weights) ==
    IF NoWeights(weights) THEN EmptyDict
    ELSE LET InWeights(name) == name \in DOMAIN weights[1]
             names == SelectSeq(FeatureNames, InWeights)
             sorted_weights == SortByAbsLoop(names, <<>>, weights[1])
             top == Take(sorted_weights, 5)
         IN  [feature \in Range(top) |->
                 IF weights[1][feature].num > 0
                 THEN <<"Prefers higher", feature>>
                 ELSE <<"Prefers lower", feature>>]

\* get_learning_insights, lines 157-195
get_learning_insights(fc, weights_collection, session_id) ==
    LET rows == GetWhere(fc, session_id)
    IN  IF rows = <<>>
        THEN [total_swipes |-> 0, likes |-> 0, dislikes |-> 0,
              learned_preferences |-> EmptyDict]
        ELSE LET IsLike(entry) == entry.metadata.action = "like"
                 IsDislike(entry) == entry.metadata.action = "dislike"
                 likes == Len(SelectSeq(rows, IsLike))
                 dislikes == Len(SelectSeq(rows, IsDislike))
                 weights == _get_preference_weights(weights_collection,
                                                    session_id)
             IN  [total_swipes |-> likes + dislikes,
                  likes |-> likes,
                  dislikes |-> dislikes,
                  like_rate |-> IF likes + dislikes > 0
                                THEN Rat(likes, likes + dislikes)
                                ELSE Num(0),
                  learned_preferences |-> learned_preferences(weights),
                  weights |-> weights]

\* get_feedback_history, lines 394-413
get_feedback_history(fc, session_id) ==
    LET rows == GetWhere(fc, session_id)
    IN  [i \in 1..Len(rows) |->
            [listing_id |-> rows[i].metadata.listing_id,
             action |-> rows[i].metadata.action,
             price |-> rows[i].metadata.price,
             bedrooms |-> rows[i].metadata.bedrooms,
             final_score |-> rows[i].metadata.final_score,
             features |-> rows[i].document.features]]

-----------------------------------------------------------------------------
(* the final reports the learner is given: the fields of Listing,          *)
(* EvaluationReport, ArgumentReport and FinalReport that it reads           *)

\* the i-th entry of a table, the table read over and over
Cycle(table, k) == table[((k - 1) % Len(table)) + 1]

\* (ids are uuid4 values, unique per listing: the catalogue's ids lie above
\* those of the cards of any result page)
CatalogueListing(k) ==
    Listing(Cycle(<<"zillow", "redfin", "realtor", "zillow">>, k),
            max_results + k,
            Cycle(<<Addr_MainSt, Addr_OakRd, Addr_PineDr, Addr_ElmAve>>, k))
        @@ [price |-> Cycle(<<600000, 900000, 600000, 750000>>, k),
            bedrooms |-> Cycle(<<2, 3, 3, 4>>, k),
            bathrooms |-> Cycle(<<Num(2), Num(2), Rat(5, 2), Num(3)>>, k),
            sqft |-> Cycle(<<1200, 1200, 2000, 1500>>, k),
            property_type |->
                Cycle(<<T_condo, T_unknown, T_townhouse,
                        <<"C","o","n","d","o">> >>, k),
            days_on_market |->
                Cycle(<<Some(15), None, Some(15), Some(40)>>, k)]

CatalogueEvaluation(k) ==
    EvaluationReport(CatalogueListing(k))
        @@ [preference_match_score |-> Cycle(<<8, 6, 6, 9>>, k),
            crime_score |-> Cycle(<<Some(7), Some(7), None, Some(3)>>, k),
            school_score |-> Cycle(<<None, None, Some(8), Some(8)>>, k),
            walkability_score |->
                Cycle(<<Some(0), Some(9), None, Some(4)>>, k),
            affordability_score |->
                Cycle(<<Some(6), Some(6), Some(2), Some(2)>>, k)]

CatalogueArguments(k) ==
    ArgumentReport(CatalogueListing(k))
        @@ [pro_arguments |->
                [i \in 1..Cycle(<<2, 1, 2, 3>>, k) |-> "pro"],
            con_arguments |->
                [i \in 1..Cycle(<<1, 1, 1, 2>>, k) |-> "con"]]

\* reports 1 and 2 have the same final_score
CatalogueReport(k) ==
    FinalReport([listing |-> CatalogueListing(k),
                 evaluation |-> CatalogueEvaluation(k),
                 arguments |-> CatalogueArguments(k)],
                Cycle(<<8, 8, 4, 6>>, k))

-----------------------------------------------------------------------------
(* Specification of the pipeline with its callers *)

NoResponse == [endpoint |-> "none", session |-> "", code |-> 0, body |-> ""]

ScraperIdle ==
    browser = <<>> /\ open_browsers = {} /\ search_task = <<>>

CollectorIdle ==
    /\ results = <<>> /\ outcome = <<>> /\ collected = <<>> /\ met = <<>>
    /\ settled = <<>>
    /\ ScraperIdle

DedupIdle == dd_in = <<>> /\ dd_out = <<>> /\ dd_again = <<>>

PipelineIdle ==
    /\ chat_sessions = EmptyDict
    /\ search_sessions = EmptyDict
    /\ task = EmptyDict
    /\ calls = EmptyDict
    /\ response = NoResponse

NormalizeIdle == na_in = <<>> /\ na_out = <<>>

ScoreIdle == sc_in = <<>> /\ sc_out = <<>>

LearnerIdle ==
    /\ feedback_collection = EmptyDict
    /\ preference_weights_collection = EmptyDict
    /\ seen_listings = EmptyDict
    /\ ret = None

ServiceIdle == NormalizeIdle /\ ScoreIdle /\ LearnerIdle

\* two chat sessions exist: one whose preferences were extracted, one still
\* without preferences (ChatSession.preferences defaults to None)
Init ==
    /\ chat_sessions = [c \in {"chat_ready", "chat_empty"} |->
                           IF c = "chat_ready" THEN Preferences ELSE None]
    /\ search_sessions = EmptyDict
    /\ task = EmptyDict
    /\ calls = EmptyDict
    /\ response = NoResponse
    /\ CollectorIdle
    /\ DedupIdle
    /\ ServiceIdle

Next ==
    \/ \E sid \in SessionIds, c \in ChatIds : start_search(sid, c)
    \/ \E s \in SessionIds : pipeline_begin(s)
    \/ \E s \in SessionIds :
           /\ s \in DOMAIN task
           /\ task[s].pc = "scrape"
           /\ \E bs \in BehaviourVectors : scrape_return(s, bs)
    \/ \E s \in SessionIds : scrape_raises(s)
    \/ \E s \in SessionIds : evaluate_return(s)
    \/ \E s \in SessionIds : evaluate_raises(s)
    \/ \E s \in SessionIds : argue_return(s)
    \/ \E s \in SessionIds : argue_raises(s)
    \/ \E s \in SessionIds, final_score \in Scores :
           compile_return(s, final_score)
    \/ \E s \in SessionIds : compile_raises(s)
    \/ \E sid \in SessionIds \cup {UnknownSession} : get_search_status(sid)
    \/ \E sid \in SessionIds \cup {UnknownSession} : get_final_results(sid)

Spec == Init /\ [][Next]_vars

\* the steps of the background task of session s: the task is started by the
\* event loop, and the call it awaits returns or raises
PipelineStep(s) ==
    \/ pipeline_begin(s)
    \/ /\ s \in DOMAIN task
       /\ task[s].pc = "scrape"
       /\ \E bs \in BehaviourVectors : scrape_return(s, bs)
    \/ scrape_raises(s)
    \/ evaluate_return(s)
    \/ evaluate_raises(s)
    \/ argue_return(s)
    \/ argue_raises(s)
    \/ \E final_score \in Scores : compile_return(s, final_score)
    \/ compile_raises(s)

\* the event loop runs every task added by background_tasks.add_task
\* (line 180), and every collaborator call settles: a task that can take a
\* step is not left waiting for ever
Fairness == \A s \in SessionIds : WF_vars(PipelineStep(s))

\* searches are started and run; nobody polls
NextLive ==
    \/ \E sid \in SessionIds, c \in ChatIds : start_search(sid, c)
    \/ \E s \in SessionIds : PipelineStep(s)

SpecLive == Init /\ [][NextLive]_vars /\ Fairness

-----------------------------------------------------------------------------
(* Specification of one search_all_platforms call with its three scrapers   *)
(* running concurrently under asyncio.gather                                *)

PendingResult == [type |-> "pending", value |-> <<>>]

InitCollect ==
    /\ PipelineIdle
    /\ DedupIdle
    /\ ServiceIdle
    /\ met = [i \in 1..Len(Scrapers) |-> 0]
    /\ results = [i \in 1..Len(Scrapers) |-> PendingResult]
    /\ outcome = [i \in 1..Len(Scrapers) |-> "running"]
    /\ collected = None
    /\ settled = <<>>
    /\ ScraperIdle

\* line 37-38: the search() call of scraper i settles, in any order
search_settles(i, b) ==
    /\ results[i] = PendingResult
    /\ results' = [results EXCEPT ![i] = search(Scrapers[i], Preferences, b)]
    /\ outcome' = [outcome EXCEPT ![i] = b.kind]
    /\ met' = [met EXCEPT ![i] = IF b.kind = "ok" THEN Len(b.cards) ELSE 0]
    /\ settled' = Append(settled, i)
    /\ UNCHANGED <<collected, scraperVars, pipelineVars, dedupVars,
                   serviceVars>>

\* line 38 written with asyncio.as_completed: the results are combined in
\* the order in which the calls settled
gather_returns_as_completed ==
    /\ \A i \in 1..Len(Scrapers) : results[i] # PendingResult
    /\ collected = None
    /\ collected' = Some(search_all_platforms(
                         [k \in 1..Len(settled) |-> results[settled[k]]]))
    /\ UNCHANGED <<results, outcome, met, settled, scraperVars,
                   pipelineVars, dedupVars, serviceVars>>

\* lines 38-58: gather returns when every call has settled
gather_returns ==
    /\ \A i \in 1..Len(Scrapers) : results[i] # PendingResult
    /\ collected = None
    /\ collected' = Some(search_all_platforms(results))
    /\ UNCHANGED <<results, outcome, met, settled, scraperVars, pipelineVars,
                   dedupVars, serviceVars>>

NextCollect ==
    \/ \E i \in 1..Len(Scrapers) :
           \E b \in Behaviours(Scrapers[i]) : search_settles(i, b)
    \/ gather_returns

SpecCollect == InitCollect /\ [][NextCollect]_vars

-----------------------------------------------------------------------------
(* Specification of one search_all_platforms call whose scrapers meet       *)
(* result pages with more property cards than max_results                   *)

\* a result page of MaxPageCards cards: the platform's cards, over and over
LongPage(source) ==
    [k \in 1..MaxPageCards |->
        SitePage[source][((k - 1) % Len(SitePage[source])) + 1]]

\* the numbers of cards met: none, around max_results, the whole page
PageSizes ==
    {0, max_results - 1, max_results, max_results + 1, MaxPageCards}

LongBehaviours(source) ==
    {[kind |-> "ok", cards |-> SubSeq(LongPage(source), 1, n)] :
         n \in PageSizes}
        \cup {[kind |-> "error", cards |-> <<>>],
              [kind |-> "handler_error", cards |-> <<>>]}

NextCap ==
    \/ \E i \in 1..Len(Scrapers) :
           \E b \in LongBehaviours(Scrapers[i]) : search_settles(i, b)
    \/ gather_returns

SpecCap == InitCollect /\ [][NextCap]_vars

-----------------------------------------------------------------------------
(* Specification of _deduplicate_listings as a function of its input        *)

\* the listings of a merged list with the given addresses
MergedList(addresses) ==
    [i \in 1..Len(addresses) |->
        Listing(Scrapers[((i - 1) % Len(Scrapers)) + 1], i, addresses[i])]

InitDedup ==
    /\ PipelineIdle
    /\ CollectorIdle
    /\ ServiceIdle
    /\ \E n \in 0..MaxLen : \E addresses \in [1..n -> AddressPool] :
           dd_in = MergedList(addresses)
    /\ dd_out = None
    /\ dd_again = None

deduplicate ==
    /\ dd_out = None
    /\ dd_out' = Some(_deduplicate_listings(dd_in))
    /\ UNCHANGED <<dd_in, dd_again, pipelineVars, collectorVars, serviceVars>>

deduplicate_again ==
    /\ dd_out # None
    /\ dd_again = None
    /\ dd_again' = Some(_deduplicate_listings(dd_out[1]))
    /\ UNCHANGED <<dd_in, dd_out, pipelineVars, collectorVars, serviceVars>>

NextDedup == deduplicate \/ deduplicate_again

SpecDedup == InitDedup /\ [][NextDedup]_vars

-----------------------------------------------------------------------------
(* Specification of _deduplicate_listings on merged lists whose listings    *)
(* carry whatever ids the adapters gave them                                *)

\* ids the adapters may hand out; a list may hold the same id more than once
AssignedIds == {<<"zillow", 1>>, <<"zillow", 2>>, <<"redfin", 1>>}

AssignedAddresses == {Addr_MainSt, Addr_MainStreet, Addr_OakRd}

InitIds ==
    /\ PipelineIdle
    /\ CollectorIdle
    /\ ServiceIdle
    /\ \E n \in 0..MaxLen :
           \E ids \in [1..n -> AssignedIds],
              addresses \in [1..n -> AssignedAddresses] :
               dd_in = [i \in 1..n |->
                           Listing(ids[i][1], ids[i][2], addresses[i])]
    /\ dd_out = None
    /\ dd_again = None

SpecIds == InitIds /\ [][NextDedup]_vars

-----------------------------------------------------------------------------
(* Specification of _normalize_address as a function of the addresses of    *)
(* two listings of one merged list                                          *)

NormalizePool ==
    AddressPool \cup {Addr_Broadway, Addr_Brdway, Addr_OakRdUnitHash,
                      Addr_OakRdUnit, Addr_OakRdUnitComma}

InitNormalize ==
    /\ PipelineIdle
    /\ CollectorIdle
    /\ DedupIdle
    /\ ScoreIdle
    /\ LearnerIdle
    /\ \E a \in NormalizePool, b \in NormalizePool : na_in = <<a, b>>
    /\ na_out = None

\* _deduplicate_listings, line 75, for each of the two listings
normalize ==
    /\ na_out = None
    /\ na_out' = Some(<<_normalize_address(na_in[1]),
                        _normalize_address(na_in[2])>>)
    /\ UNCHANGED <<na_in, pipelineVars, collectorVars, dedupVars,
                   scoreVars, learnerVars>>

NextNormalize == normalize

SpecNormalize == InitNormalize /\ [][NextNormalize]_vars

-----------------------------------------------------------------------------
(* Specification of _calculate_personalized_score as a function of the      *)
(* feature dictionary and the weight dictionary                             *)

\* final_score of a report (0..10), or no final_score key in the dictionary
ScoreFinalScores == {None, Some(Num(0)), Some(Num(2)), Some(Num(10))}

ScoreFeatureValues == {Num(0), Num(8), Num(MaxMagnitude)}

ScorePrices == {Rat(3, 5), Num(MaxMagnitude)}

\* a weight from a correlation lies in [-1, 1]; the function takes any dict
ScoreWeights ==
    {Num(0 - MaxMagnitude), Num(0 - 1), Num(0), Num(1), Num(MaxMagnitude)}

\* the weight of "price", or no such key in the dictionary
ScorePriceWeights == {None, Some(Num(0 - 1)), Some(Num(0)), Some(Rat(1, 2))}

ScoreFeatures(final_score, bedrooms, price) ==
    LET features == [bedrooms |-> bedrooms, price |-> price]
    IN  IF final_score = None THEN features
        ELSE Update(features, [final_score |-> final_score[1]])

\* "sqft" has a weight and no feature value
ScoreWeightDict(bedrooms, price) ==
    LET weights == [bedrooms |-> bedrooms, sqft |-> Num(1)]
    IN  IF price = None THEN weights
        ELSE Update(weights, [price |-> price[1]])

InitScore ==
    /\ PipelineIdle
    /\ CollectorIdle
    /\ DedupIdle
    /\ NormalizeIdle
    /\ LearnerIdle
    /\ \E final_score \in ScoreFinalScores, bedrooms \in ScoreFeatureValues,
          price \in ScorePrices, wb \in ScoreWeights,
          wp \in ScorePriceWeights :
           sc_in = [features |-> ScoreFeatures(final_score, bedrooms, price),
                    weights |-> ScoreWeightDict(wb, wp)]
    /\ sc_out = None

\* get_ranked_listings, line 107
calculate_personalized_score ==
    /\ sc_out = None
    /\ sc_out' = Some(_calculate_personalized_score(sc_in.features,
                                                    sc_in.weights))
    /\ UNCHANGED <<sc_in, pipelineVars, collectorVars, dedupVars,
                   normalizeVars, learnerVars>>

NextScore == calculate_personalized_score

SpecScore == InitScore /\ [][NextScore]_vars

-----------------------------------------------------------------------------
(* Specifications of the RecommendationService with its caller *)

\* the lists of final reports handed to a query: no report twice
ReportLists ==
    LET indexes ==
            UNION {{ks \in [1..n -> 1..MaxReports] :
                       \A i, j \in 1..n : i # j => ks[i] # ks[j]} :
                   n \in 0..MaxReports}
    IN  {[i \in 1..Len(ks) |-> CatalogueReport(ks[i])] : ks \in indexes}

\* the lists of seen listing ids handed to get_next_listing
SeenLists ==
    {AsList(S) :
        S \in SUBSET {CatalogueReport(k).listing.id : k \in 1..MaxReports}}

InitLearner ==
    /\ PipelineIdle
    /\ CollectorIdle
    /\ DedupIdle
    /\ NormalizeIdle
    /\ ScoreIdle
    /\ LearnerIdle

\* the action of the event a record_feedback call overwrites (history)
Replaced(feedback) ==
    LET prior == {id \in DOMAIN feedback_collection :
                     /\ feedback_collection[id].metadata.session_id
                            = feedback.session_id
                     /\ feedback_collection[id].metadata.listing_id
                            = feedback.listing_id}
    IN  IF prior = {} THEN None
        ELSE Some(feedback_collection[CHOOSE id \in prior : TRUE]
                      .metadata.action)

\* record_feedback(feedback, listing, final_report) for report k; it returns
\* nothing: with history, ret keeps the call
call_record_feedback(session_id, k, action, history) ==
    /\ IF history THEN TRUE ELSE ret = None
    /\ LET final_report == CatalogueReport(k)
           feedback == [listing_id |-> final_report.listing.id,
                        action |-> action,
                        session_id |-> session_id]
           after == record_feedback(feedback_collection,
                                    preference_weights_collection, feedback,
                                    final_report.listing, final_report)
       IN  /\ feedback_collection' = after.feedback_collection
           /\ preference_weights_collection'
                  = after.preference_weights_collection
           /\ ret' = IF history
                     THEN Some([op |-> "record_feedback",
                                feedback |-> feedback,
                                replaced |-> Replaced(feedback)])
                     ELSE ret
    /\ UNCHANGED <<seen_listings, pipelineVars, collectorVars, dedupVars,
                   normalizeVars, scoreVars>>

call_get_feedback_history(session_id) ==
    /\ ret' = Some([op |-> "get_feedback_history",
                    session_id |-> session_id,
                    value |-> get_feedback_history(feedback_collection,
                                                   session_id)])
    /\ UNCHANGED <<feedback_collection, preference_weights_collection,
                   seen_listings, pipelineVars, collectorVars, dedupVars,
                   normalizeVars, scoreVars>>

call_get_learning_insights(session_id) ==
    /\ ret' = Some([op |-> "get_learning_insights",
                    session_id |-> session_id,
                    value |-> get_learning_insights(
                                  feedback_collection,
                                  preference_weights_collection, session_id)])
    /\ UNCHANGED <<feedback_collection, preference_weights_collection,
                   seen_listings, pipelineVars, collectorVars, dedupVars,
                   normalizeVars, scoreVars>>

\* a caller that records feedback and reads the history, in any order
NextFeedback ==
    \/ \E session_id \in SessionIds, k \in 1..MaxReports,
          action \in {"like", "dislike"} :
           call_record_feedback(session_id, k, action, TRUE)
    \/ \E session_id \in SessionIds : call_get_feedback_history(session_id)
    \/ \E session_id \in SessionIds : call_get_learning_insights(session_id)

SpecFeedback == InitLearner /\ [][NextFeedback]_vars

call_get_ranked_listings(session_id, listings) ==
    /\ ret = None
    /\ ret' = Some([op |-> "get_ranked_listings",
                    session_id |-> session_id,
                    listings |-> listings,
                    value |-> get_ranked_listings(
                                  preference_weights_collection, session_id,
                                  listings)])
    /\ UNCHANGED <<feedback_collection, preference_weights_collection,
                   seen_listings, pipelineVars, collectorVars, dedupVars,
                   normalizeVars, scoreVars>>

call_get_next_listing(session_id, available_listings, seen_listing_ids) ==
    /\ ret = None
    /\ ret' = Some([op |-> "get_next_listing",
                    session_id |-> session_id,
                    available_listings |-> available_listings,
                    seen_listing_ids |-> seen_listing_ids,
                    value |-> get_next_listing(
                                  preference_weights_collection, session_id,
                                  available_listings, seen_listing_ids)])
    /\ UNCHANGED <<feedback_collection, preference_weights_collection,
                   seen_listings, pipelineVars, collectorVars, dedupVars,
                   normalizeVars, scoreVars>>

\* a caller that records feedback and then asks for one ranking: the
\* rankings write neither collection, so no state of the collections is lost
NextLearner ==
    \/ \E session_id \in SessionIds, k \in 1..MaxReports,
          action \in {"like", "dislike"} :
           call_record_feedback(session_id, k, action, FALSE)
    \/ /\ ret = None
       /\ \E session_id \in SessionIds, listings \in ReportLists :
              call_get_ranked_listings(session_id, listings)
    \/ /\ ret = None
       /\ \E session_id \in SessionIds, available_listings \in ReportLists,
             seen_listing_ids \in SeenLists :
              call_get_next_listing(session_id, available_listings,
                                    seen_listing_ids)

SpecLearner == InitLearner /\ [][NextLearner]_vars

-----------------------------------------------------------------------------
(* services/recommendation_service.py: the ranking in binary floating      *)
(* point. The final scores of the catalogue are whole numbers and the      *)
(* score arithmetic above is exact; here the final scores are floats and   *)
(* every operation of lines 369-382 rounds its result to the nearest       *)
(* float, halves to the even significand, as IEEE 754 does.                *)

\* significand bits of the floats explored (CPython's float has 53)
Precision == 5

\* n/d rounded to the nearest integer, a half to the even neighbour
RoundHalfEven(n, d) ==
    LET q == n \div d
        r == n % d
    IN  IF 2 * r < d THEN q
        ELSE IF 2 * r > d THEN q + 1
        ELSE IF q % 2 = 0 THEN q ELSE q + 1

\* the binary exponents of the floats explored
Exponents == (0 - 12)..4

\* the float nearest to n/d (n >= 0, d > 0): with 2^e the power of two
\* not above n/d, the value is rounded to a multiple of 2^(e - Precision + 1)
FloatOf(n, d) ==
    IF n = 0 THEN Num(0)
    ELSE LET e == CHOOSE x \in Exponents :
                      IF x >= 0 THEN d * 2^x <= n /\ n < d * 2^(x + 1)
                      ELSE d <= n * 2^(0 - x) /\ n * 2^(0 - x) < 2 * d
             ulp == e - Precision + 1
         IN  IF ulp >= 0
             THEN Num(RoundHalfEven(n, d * 2^ulp) * 2^ulp)
             ELSE Rat(RoundHalfEven(n * 2^(0 - ulp), d), 2^(0 - ulp))

\* a * b and a + b of two floats that are not negative
FloatMul(a, b) == FloatOf(a.num * b.num, a.den * b.den)

FloatAdd(a, b) == LET sum == RatAdd(a, b) IN FloatOf(sum.num, sum.den)

NonZero(x) == x.num # 0

\* the sum of the terms, added one after the other from the left
RECURSIVE FloatSum(_)
FloatSum(terms) ==
    IF terms = <<>> THEN Num(0)
    ELSE FloatAdd(FloatSum(SubSeq(terms, 1, Len(terms) - 1)),
                  terms[Len(terms)])

\* lines 371-375: the loop over features.items(), in the order of the dict.
\* Adding 0.0 leaves a float as it is, so the products that are 0 are left
\* out of the sum
float_weighted_sum(names, features, weights) ==
    LET products ==
            [k \in 1..Len(names) |->
                IF names[k] \in DOMAIN weights
                THEN FloatMul(features[names[k]], weights[names[k]])
                ELSE Num(0)]
    IN  FloatSum(SelectSeq(products, NonZero))

\* _calculate_personalized_score, lines 369-382, for weights that are not
\* negative: the literals 0.7 and 0.3 are the floats nearest to them
_calculate_personalized_score_float(features, weights) ==
    LET base_score == Get(features, "final_score", Num(5))
        personalized_score ==
            FloatAdd(FloatMul(FloatOf(7, 10), base_score),
                     FloatMul(FloatOf(3, 10),
                              FloatAdd(Num(5),
                                       float_weighted_sum(FeatureNames,
                                                          features,
                                                          weights))))
    IN  RatMax(Num(0), RatMin(Num(10), personalized_score))

\* get_ranked_listings, lines 96-113, for reports whose final_score is a
\* float: both sorts are stable and put the highest key first
get_ranked_listings_float(weights_collection, session_id, listings) ==
    LET weights == _get_preference_weights(weights_collection, session_id)
        Features(report) ==
            [_extract_features(report.listing, FinalReport(report, 0))
                 EXCEPT !.final_score = report.final_score]
        scored_listings ==
            [i \in 1..Len(listings) |->
                [score |-> IF NoWeights(weights) THEN listings[i].final_score
                           ELSE _calculate_personalized_score_float(
                                    Features(listings[i]), weights[1]),
                 report |-> listings[i]]]
        sorted == SortScoredLoop(scored_listings, <<>>)
    IN  [i \in 1..Len(sorted) |-> sorted[i].report]

\* the final scores of the reports ranked: every float from 4 to 10
FloatScores ==
    LET grid == 2^(Precision - 3)
    IN  {x \in {Rat(n, grid) : n \in (4 * grid)..(10 * grid)} :
            FloatOf(x.num, x.den) = x}

FloatReport(k, final_score) == FinalReport(CatalogueReport(k), final_score)

\* the two collections after feedback of one action on the first n reports
\* of the catalogue
RECURSIVE Recorded(_, _, _)
Recorded(session_id, n, action) ==
    IF n = 0
    THEN [feedback_collection |-> EmptyDict,
          preference_weights_collection |-> EmptyDict]
    ELSE LET before == Recorded(session_id, n - 1, action)
             final_report == CatalogueReport(n)
         IN  record_feedback(before.feedback_collection,
                             before.preference_weights_collection,
                             [listing_id |-> final_report.listing.id,
                              action |-> action,
                              session_id |-> session_id],
                             final_report.listing, final_report)

\* a session after feedback of one label only: no weights yet, or weights
\* that are all zero
InitFloat ==
    /\ PipelineIdle
    /\ CollectorIdle
    /\ DedupIdle
    /\ NormalizeIdle
    /\ ScoreIdle
    /\ seen_listings = EmptyDict
    /\ ret = None
    /\ \E session_id \in SessionIds, n \in 0..MaxReports,
          action \in {"like", "dislike"} :
           LET after == Recorded(session_id, n, action)
           IN  /\ feedback_collection = after.feedback_collection
               /\ preference_weights_collection
                      = after.preference_weights_collection

call_get_ranked_listings_float(session_id, listings) ==
    /\ ret = None
    /\ ret' = Some([op |-> "get_ranked_listings",
                    session_id |-> session_id,
                    listings |-> listings,
                    value |-> get_ranked_listings_float(
                                  preference_weights_collection, session_id,
                                  listings)])
    /\ UNCHANGED <<feedback_collection, preference_weights_collection,
                   seen_listings, pipelineVars, collectorVars, dedupVars,
                   normalizeVars, scoreVars>>

\* a caller that asks for the ranking of two reports
NextFloat ==
    \E session_id \in SessionIds, a, b \in FloatScores :
        call_get_ranked_listings_float(
            session_id, <<FloatReport(1, a), FloatReport(2, b)>>)

SpecFloat == InitFloat /\ [][NextFloat]_vars

-----------------------------------------------------------------------------
(* api/search.py: the endpoints of a session whose reports carry the      *)
(* fields the learner reads                                                 *)

BadState(endpoint, sid, detail) ==
    [endpoint |-> endpoint, session |-> sid, code |-> 400, body |-> detail]

Answer(endpoint, sid, body) ==
    [endpoint |-> endpoint, session |-> sid, code |-> 200, body |-> body]

\* get_search_results, lines 206-222
get_search_results(sid) ==
    /\ response' =
           IF sid \notin DOMAIN search_sessions
           THEN NotFound("results", sid)
           ELSE IF Get(search_sessions[sid], "status", None) # "complete"
           THEN BadState("results", sid, "Search is not complete yet")
           ELSE Answer("results", sid,
                       Get(search_sessions[sid], "listings", <<>>))
    /\ UNCHANGED <<chat_sessions, search_sessions, task, calls,
                   collectorVars, dedupVars, serviceVars>>

\* get_evaluated_results, lines 225-241
get_evaluated_results(sid) ==
    /\ response' =
           IF sid \notin DOMAIN search_sessions
           THEN NotFound("evaluated-results", sid)
           ELSE IF Get(search_sessions[sid], "status", None) # "complete"
           THEN BadState("evaluated-results", sid,
                         "Search is not complete yet")
           ELSE Answer("evaluated-results", sid,
                       Get(search_sessions[sid], "evaluated_listings", <<>>))
    /\ UNCHANGED <<chat_sessions, search_sessions, task, calls,
                   collectorVars, dedupVars, serviceVars>>

\* lines 283-287: the first report of the session with that listing id
FindReport(final_reports, listing_id) ==
    LET found == {i \in 1..Len(final_reports) :
                     final_reports[i].listing.id = listing_id}
    IN  IF found = {} THEN None
        ELSE Some(final_reports[CHOOSE i \in found :
                                    \A j \in found : i <= j])

\* line 296 left out: the listing id is appended to the seen list at every
\* feedback
submit_feedback_always_appending(session_id, listing_id, action) ==
    LET session == search_sessions[session_id]
        final_report == FindReport(Get(session, "final_reports", <<>>),
                                   listing_id)
        request == [listing_id |-> listing_id, action |-> action,
                    session_id |-> session_id]
        after == record_feedback(feedback_collection,
                                 preference_weights_collection, request,
                                 final_report[1].listing, final_report[1])
        seen == Get(seen_listings, session_id, <<>>)
    IN  /\ IF session_id \notin DOMAIN search_sessions
           THEN /\ response' = NotFound("feedback", session_id)
                /\ UNCHANGED <<feedback_collection,
                               preference_weights_collection, seen_listings>>
           ELSE IF Get(session, "status", None) # "complete"
           THEN /\ response' = BadState("feedback", session_id,
                                        "Search not complete yet")
                /\ UNCHANGED <<feedback_collection,
                               preference_weights_collection, seen_listings>>
           ELSE IF final_report = None
           THEN /\ response' =
                       [endpoint |-> "feedback", session |-> session_id,
                        code |-> 404,
                        body |-> "Listing not found in this session"]
                /\ UNCHANGED <<feedback_collection,
                               preference_weights_collection, seen_listings>>
           ELSE /\ feedback_collection' = after.feedback_collection
                /\ preference_weights_collection'
                       = after.preference_weights_collection
                /\ seen_listings' =
                       Put(seen_listings, session_id,
                           Append(seen, listing_id))
                /\ response' =
                       Answer("feedback", session_id,
                           [status |-> "success",
                            message |->
                                "Feedback recorded and preferences updated",
                            learning_insights |->
                                get_learning_insights(
                                    after.feedback_collection,
                                    after.preference_weights_collection,
                                    session_id)])
        /\ UNCHANGED <<chat_sessions, search_sessions, task, calls, ret,
                       collectorVars, dedupVars, normalizeVars, scoreVars>>

\* submit_feedback with the seen list written (lines 293-297) before the
\* listing is looked up among the reports (lines 280-290)
submit_feedback_marking_seen_first(session_id, listing_id, action) ==
    LET session == search_sessions[session_id]
        final_report == FindReport(Get(session, "final_reports", <<>>),
                                   listing_id)
        request == [listing_id |-> listing_id, action |-> action,
                    session_id |-> session_id]
        after == record_feedback(feedback_collection,
                                 preference_weights_collection, request,
                                 final_report[1].listing, final_report[1])
        seen == Get(seen_listings, session_id, <<>>)
    IN  /\ IF session_id \notin DOMAIN search_sessions
           THEN /\ response' = NotFound("feedback", session_id)
                /\ UNCHANGED <<feedback_collection,
                               preference_weights_collection, seen_listings>>
           ELSE IF Get(session, "status", None) # "complete"
           THEN /\ response' = BadState("feedback", session_id,
                                        "Search not complete yet")
                /\ UNCHANGED <<feedback_collection,
                               preference_weights_collection, seen_listings>>
           ELSE IF final_report = None
           THEN /\ response' =
                       [endpoint |-> "feedback", session |-> session_id,
                        code |-> 404,
                        body |-> "Listing not found in this session"]
                /\ seen_listings' =
                       Put(seen_listings, session_id,
                           IF listing_id \in Range(seen) THEN seen
                           ELSE Append(seen, listing_id))
                /\ UNCHANGED <<feedback_collection,
                               preference_weights_collection>>
           ELSE /\ feedback_collection' = after.feedback_collection
                /\ preference_weights_collection'
                       = after.preference_weights_collection
                /\ seen_listings' =
                       Put(seen_listings, session_id,
                           IF listing_id \in Range(seen) THEN seen
                           ELSE Append(seen, listing_id))
                /\ response' =
                       Answer("feedback", session_id,
                           [status |-> "success",
                            message |->
                                "Feedback recorded and preferences updated",
                            learning_insights |->
                                get_learning_insights(
                                    after.feedback_collection,
                                    after.preference_weights_collection,
                                    session_id)])
        /\ UNCHANGED <<chat_sessions, search_sessions, task, calls, ret,
                       collectorVars, dedupVars, normalizeVars, scoreVars>>

\* submit_feedback, lines 263-309
submit_feedback(session_id, listing_id, action) ==
    LET session == search_sessions[session_id]
        final_report == FindReport(Get(session, "final_reports", <<>>),
                                   listing_id)
        request == [listing_id |-> listing_id, action |-> action,
                    session_id |-> session_id]
        after == record_feedback(feedback_collection,
                                 preference_weights_collection, request,
                                 final_report[1].listing, final_report[1])
        seen == Get(seen_listings, session_id, <<>>)
    IN  /\ IF session_id \notin DOMAIN search_sessions
           THEN /\ response' = NotFound("feedback", session_id)
                /\ UNCHANGED <<feedback_collection,
                               preference_weights_collection, seen_listings>>
           ELSE IF Get(session, "status", None) # "complete"
           THEN /\ response' = BadState("feedback", session_id,
                                        "Search not complete yet")
                /\ UNCHANGED <<feedback_collection,
                               preference_weights_collection, seen_listings>>
           ELSE IF final_report = None
           THEN /\ response' =
                       [endpoint |-> "feedback", session |-> session_id,
                        code |-> 404,
                        body |-> "Listing not found in this session"]
                /\ UNCHANGED <<feedback_collection,
                               preference_weights_collection, seen_listings>>
           ELSE /\ feedback_collection' = after.feedback_collection
                /\ preference_weights_collection'
                       = after.preference_weights_collection
                /\ seen_listings' =
                       Put(seen_listings, session_id,
                           IF listing_id \in Range(seen) THEN seen
                           ELSE Append(seen, listing_id))
                /\ response' =
                       Answer("feedback", session_id,
                           [status |-> "success",
                            message |->
                                "Feedback recorded and preferences updated",
                            learning_insights |->
                                get_learning_insights(
                                    after.feedback_collection,
                                    after.preference_weights_collection,
                                    session_id)])
        /\ UNCHANGED <<chat_sessions, search_sessions, task, calls, ret,
                       collectorVars, dedupVars, normalizeVars, scoreVars>>

\* get_next_listing of api/search.py, lines 312-351
api_get_next_listing(session_id) ==
    LET session == search_sessions[session_id]
        final_reports == Get(session, "final_reports", <<>>)
        seen == Get(seen_listings, session_id, <<>>)
        next_listing == get_next_listing(preference_weights_collection,
                                         session_id, final_reports, seen)
    IN  /\ response' =
               IF session_id \notin DOMAIN search_sessions
               THEN NotFound("next", session_id)
               ELSE IF Get(session, "status", None) # "complete"
               THEN BadState("next", session_id, "Search not complete yet")
               ELSE IF final_reports = <<>>
               THEN [endpoint |-> "next", session |-> session_id,
                     code |-> 404, body |-> "No listings available"]
               ELSE IF next_listing = None
               THEN Answer("next", session_id,
                        [message |-> "No more unseen listings available",
                         listing |-> None,
                         all_seen |-> TRUE])
               ELSE Answer("next", session_id,
                        [message |-> "Next recommended listing",
                         listing |-> next_listing,
                         all_seen |-> FALSE])
        /\ UNCHANGED <<chat_sessions, search_sessions, task, calls,
                       collectorVars, dedupVars, serviceVars>>

\* get_learning_insights of api/search.py, lines 354-367
api_get_learning_insights(session_id) ==
    /\ response' =
           IF session_id \notin DOMAIN search_sessions
           THEN NotFound("insights", session_id)
           ELSE Answer("insights", session_id,
                    [session_id |-> session_id,
                     insights |->
                         get_learning_insights(
                             feedback_collection,
                             preference_weights_collection, session_id)])
    /\ UNCHANGED <<chat_sessions, search_sessions, task, calls,
                   collectorVars, dedupVars, serviceVars>>

\* lines 379-380 left out: the ranking of whatever reports the session has
get_ranked_results_unchecked(session_id) ==
    LET session == search_sessions[session_id]
        final_reports == Get(session, "final_reports", <<>>)
    IN  /\ response' =
               IF session_id \notin DOMAIN search_sessions
               THEN NotFound("ranked-results", session_id)
               ELSE IF final_reports = <<>>
               THEN Answer("ranked-results", session_id, <<>>)
               ELSE Answer("ranked-results", session_id,
                        get_ranked_listings(preference_weights_collection,
                                            session_id, final_reports))
        /\ UNCHANGED <<chat_sessions, search_sessions, task, calls,
                       collectorVars, dedupVars, serviceVars>>

\* line 389 written as a sort of the session's own list: the ranked order
\* replaces the stored order of the final reports
get_ranked_results_in_place(session_id) ==
    LET session == search_sessions[session_id]
        final_reports == Get(session, "final_reports", <<>>)
        ranked_reports == get_ranked_listings(preference_weights_collection,
                                              session_id, final_reports)
        ranks == /\ session_id \in DOMAIN search_sessions
                 /\ Get(session, "status", None) = "complete"
                 /\ final_reports # <<>>
    IN  /\ response' =
               IF session_id \notin DOMAIN search_sessions
               THEN NotFound("ranked-results", session_id)
               ELSE IF Get(session, "status", None) # "complete"
               THEN BadState("ranked-results", session_id,
                             "Search not complete yet")
               ELSE IF final_reports = <<>>
               THEN Answer("ranked-results", session_id, <<>>)
               ELSE Answer("ranked-results", session_id, ranked_reports)
        /\ search_sessions' =
               IF ranks
               THEN [search_sessions EXCEPT
                        ![session_id].final_reports = ranked_reports]
               ELSE search_sessions
        /\ UNCHANGED <<chat_sessions, task, calls,
                       collectorVars, dedupVars, serviceVars>>

\* get_ranked_results, lines 370-391
get_ranked_results(session_id) ==
    LET session == search_sessions[session_id]
        final_reports == Get(session, "final_reports", <<>>)
    IN  /\ response' =
               IF session_id \notin DOMAIN search_sessions
               THEN NotFound("ranked-results", session_id)
               ELSE IF Get(session, "status", None) # "complete"
               THEN BadState("ranked-results", session_id,
                             "Search not complete yet")
               ELSE IF final_reports = <<>>
               THEN Answer("ranked-results", session_id, <<>>)
               ELSE Answer("ranked-results", session_id,
                        get_ranked_listings(preference_weights_collection,
                                            session_id, final_reports))
        /\ UNCHANGED <<chat_sessions, search_sessions, task, calls,
                       collectorVars, dedupVars, serviceVars>>

\* how far the background run of a session has come
Stages == {"pending", "scraping", "evaluating", "error", "complete"}

\* the session and the locals of run_search_pipeline at a stage of a run
\* that found the first n listings of the catalogue
CatalogueRun(stage, n) ==
    LET listings == [k \in 1..n |-> CatalogueListing(k)]
        evaluated_listings ==
            [k \in 1..n |-> [listing |-> CatalogueListing(k),
                             evaluation |-> CatalogueEvaluation(k)]]
        argued_listings ==
            [k \in 1..n |-> [listing |-> CatalogueListing(k),
                             evaluation |-> CatalogueEvaluation(k),
                             arguments |-> CatalogueArguments(k)]]
        final_reports == [k \in 1..n |-> CatalogueReport(k)]
        started == Step([status |-> "pending",
                         chat_session_id |-> "chat_ready",
                         message |-> "Initializing search...",
                         progress |-> Num(0), listings |-> <<>>],
                        NewTask("chat_ready"))
        scraping == begin(started.sess, started.t)
        evaluating == enter_evaluate(scraping.sess, scraping.t, listings)
    IN  CASE stage = "pending" -> started
          [] stage = "scraping" -> scraping
          [] stage = "error" ->
                 pipeline_error(scraping.sess, scraping.t,
                                "search_all_platforms failed")
          [] stage = "evaluating" -> evaluating
          [] stage = "complete" ->
                 IF n = 0 THEN evaluating
                 ELSE finish(evaluating.sess,
                          [evaluating.t EXCEPT
                              !.evaluated_listings = evaluated_listings,
                              !.argued_listings = argued_listings,
                              !.final_reports = final_reports])

\* the collaborator calls of that run
CatalogueCalls(stage, n) ==
    [NoCalls EXCEPT
        !.collector = IF stage = "pending" THEN 0 ELSE 1,
        !.evaluator = n,
        !.arguer = IF stage = "complete" THEN n ELSE 0,
        !.compiler = IF stage = "complete" THEN n ELSE 0,
        !.adapters = IF stage \in {"evaluating", "complete"}
                     THEN <<"ok", "ok", "ok">> ELSE <<>>]

\* one search session, its background run at any stage (a run evaluates at
\* most MaxListings listings); nothing learned yet
InitApi ==
    /\ chat_sessions = [c \in {"chat_ready", "chat_empty"} |->
                           IF c = "chat_ready" THEN Preferences ELSE None]
    /\ \E s \in SessionIds, stage \in Stages, n \in 0..MaxListings :
           /\ stage \in {"pending", "scraping", "error"} => n = 0
           /\ stage = "evaluating" => n = 1
           /\ search_sessions = (s :> CatalogueRun(stage, n).sess)
           /\ task = (s :> CatalogueRun(stage, n).t)
           /\ calls = (s :> CatalogueCalls(stage, n))
    /\ response = NoResponse
    /\ CollectorIdle
    /\ DedupIdle
    /\ ServiceIdle

\* a caller of the endpoints, with the id of the session and with an id
\* that was never handed out
NextApi ==
    \/ \E sid \in SessionIds \cup {UnknownSession} : get_search_status(sid)
    \/ \E sid \in SessionIds \cup {UnknownSession} : get_search_results(sid)
    \/ \E sid \in SessionIds \cup {UnknownSession} :
           get_evaluated_results(sid)
    \/ \E sid \in SessionIds \cup {UnknownSession} : get_final_results(sid)
    \/ \E sid \in SessionIds \cup {UnknownSession}, k \in 1..MaxReports,
          action \in {"like", "dislike"} :
           submit_feedback(sid, CatalogueListing(k).id, action)
    \/ \E sid \in SessionIds \cup {UnknownSession} :
           api_get_next_listing(sid)
    \/ \E sid \in SessionIds \cup {UnknownSession} :
           api_get_learning_insights(sid)
    \/ \E sid \in SessionIds \cup {UnknownSession} : get_ranked_results(sid)

SpecApi == InitApi /\ [][NextApi]_vars

-----------------------------------------------------------------------------
(* Specification of two search sessions side by side: each is started and *)
(* run by its own background task, or is complete with catalogue reports   *)
(* and gets feedback                                                        *)

PairIds == {"s1", "s2"}

\* the reports of a session that gets feedback: the fewest from which
\* weights are learned
PairReports == 2

\* every platform's page shows the same number of cards
PairVectors ==
    {bs \in BehaviourVectors :
        \E n \in 0..MaxCards : \A i \in 1..Len(Scrapers) :
            bs[i] = [kind |-> "ok", cards |-> Take(SitePage[Scrapers[i]], n)]}

InitPair ==
    /\ chat_sessions = [c \in {"chat_ready", "chat_empty"} |->
                           IF c = "chat_ready" THEN Preferences ELSE None]
    /\ \E complete \in SUBSET PairIds :
           /\ search_sessions =
                  [s \in complete |-> CatalogueRun("complete", PairReports).sess]
           /\ task = [s \in complete |-> CatalogueRun("complete", PairReports).t]
           /\ calls = [s \in complete |-> CatalogueCalls("complete", PairReports)]
    /\ response = NoResponse
    /\ CollectorIdle
    /\ DedupIdle
    /\ ServiceIdle

NextPair ==
    \/ \E sid \in PairIds, c \in ChatIds : start_search(sid, c)
    \/ \E s \in PairIds : pipeline_begin(s)
    \/ \E s \in PairIds, bs \in PairVectors : scrape_return(s, bs)
    \/ \E s \in PairIds : scrape_raises(s)
    \/ \E s \in PairIds : evaluate_return(s)
    \/ \E s \in PairIds : evaluate_raises(s)
    \/ \E s \in PairIds : argue_return(s)
    \/ \E s \in PairIds : argue_raises(s)
    \/ \E s \in PairIds, final_score \in Scores :
           compile_return(s, final_score)
    \/ \E s \in PairIds : compile_raises(s)
    \/ \E sid \in PairIds, k \in 1..PairReports,
          action \in {"like", "dislike"} :
           submit_feedback(sid, CatalogueListing(k).id, action)

SpecPair == InitPair /\ [][NextPair]_vars

-----------------------------------------------------------------------------
(* agents/base_scraper.py, agents/zillow_scraper.py: ZillowScraper.search *)
(* await by await, for the runs of two sessions on the one ZillowScraper   *)
(* instance of the module-level orchestrator (api/search.py line 32)       *)

\* the search() call of a run's search_all_platforms starts: the coroutine
\* runs to the launch of initialize_browser (base_scraper.py lines 35-36);
\* b is what the run's own page will meet
search_called(r, b) ==
    /\ search_task[r].pc = "idle"
    /\ search_task' = [search_task EXCEPT ![r].pc = "launch", ![r].b = b]
    /\ UNCHANGED <<browser, open_browsers, results, outcome, collected, met, settled,
                   pipelineVars, dedupVars, serviceVars>>

\* base_scraper.py line 36: the launch returns and self.browser is assigned;
\* create_page (lines 45-48) finds self.browser set and asks it for a page
initialize_browser_returns(r) ==
    /\ search_task[r].pc = "launch"
    /\ browser' = Some(r)
    /\ open_browsers' = open_browsers \cup {r}
    /\ search_task' = [search_task EXCEPT ![r].pc = "new_page"]
    /\ UNCHANGED <<results, outcome, collected, met, settled,
                   pipelineVars, dedupVars, serviceVars>>

\* zillow_scraper.py lines 91-94: the handler of search(); close_browser
\* (base_scraper.py lines 40-41) closes the browser self.browser names now
Raised_in_search(r) ==
    /\ open_browsers' = IF browser = None THEN open_browsers
                        ELSE open_browsers \ {browser[1]}
    /\ search_task' =
           IF search_task[r].b.kind = "handler_error" /\ browser # None
           THEN [search_task EXCEPT ![r].pc = "done",
                                    ![r].result = ExceptionResult]
           ELSE [search_task EXCEPT ![r].pc = "handler_close"]
    /\ UNCHANGED <<browser, results, outcome, collected, met, settled,
                   pipelineVars, dedupVars, serviceVars>>

\* base_scraper.py lines 48-56: new_page, set_viewport_size and
\* set_extra_http_headers return, or raise because the page's browser (the
\* one this run launched) has been closed; then line 78 starts the goto
create_page_returns(r) ==
    /\ search_task[r].pc = "new_page"
    /\ IF r \in open_browsers
       THEN /\ search_task' = [search_task EXCEPT ![r].pc = "goto"]
            /\ UNCHANGED <<browser, open_browsers, results, outcome,
                           collected, met, settled, pipelineVars, dedupVars,
                           serviceVars>>
       ELSE Raised_in_search(r)

\* zillow_scraper.py line 78: page.goto returns, or raises (a timeout, or the
\* page's browser closed); then line 81 starts the sleep
goto_returns(r) ==
    /\ search_task[r].pc = "goto"
    /\ IF r \in open_browsers /\ search_task[r].b.kind = "ok"
       THEN /\ search_task' = [search_task EXCEPT ![r].pc = "sleep"]
            /\ UNCHANGED <<browser, open_browsers, results, outcome,
                           collected, met, settled, pipelineVars, dedupVars,
                           serviceVars>>
       ELSE Raised_in_search(r)

\* line 81: the sleep is over; line 84 starts extract_listings, whose first
\* await is query_selector_all (line 106)
handle_rate_limiting_returns(r) ==
    /\ search_task[r].pc = "sleep"
    /\ search_task' = [search_task EXCEPT ![r].pc = "extract"]
    /\ UNCHANGED <<browser, open_browsers, results, outcome, collected, met, settled,
                   pipelineVars, dedupVars, serviceVars>>

\* lines 84-86: extract_listings returns the cards' listings, or the empty
\* list when its own handler (lines 121-122) caught the closed page; then
\* close_browser closes the browser self.browser names now
extract_listings_returns(r) ==
    /\ search_task[r].pc = "extract"
    /\ search_task' =
           [search_task EXCEPT
               ![r].pc = "close",
               ![r].listings =
                   IF r \in open_browsers
                   THEN extract_listings("zillow", search_task[r].b.cards)
                   ELSE <<>>]
    /\ open_browsers' = open_browsers \ {browser[1]}
    /\ UNCHANGED <<browser, results, outcome, collected, met, settled,
                   pipelineVars, dedupVars, serviceVars>>

\* lines 86-89: close_browser returns and search returns its listings
close_browser_returns(r) ==
    /\ search_task[r].pc = "close"
    /\ search_task' =
           [search_task EXCEPT
               ![r].pc = "done",
               ![r].result =
                   ListResult(Take(search_task[r].listings, max_results))]
    /\ UNCHANGED <<browser, open_browsers, results, outcome, collected, met, settled,
                   pipelineVars, dedupVars, serviceVars>>

\* lines 94-97: the handler's close_browser returns and search returns the
\* mock listings
handler_close_browser_returns(r) ==
    /\ search_task[r].pc = "handler_close"
    /\ search_task' =
           [search_task EXCEPT
               ![r].pc = "done",
               ![r].result =
                   ListResult(_get_mock_listings("zillow", Preferences[1]))]
    /\ UNCHANGED <<browser, open_browsers, results, outcome, collected, met, settled,
                   pipelineVars, dedupVars, serviceVars>>

\* the orchestrator is constructed (self.browser is None); the jobs of two
\* sessions have not called search yet
InitBrowser ==
    /\ PipelineIdle
    /\ DedupIdle
    /\ ServiceIdle
    /\ results = <<>> /\ outcome = <<>> /\ collected = <<>> /\ met = <<>>
    /\ settled = <<>>
    /\ browser = None
    /\ open_browsers = {}
    /\ search_task = [r \in PairIds |->
                         [pc |-> "idle", b |-> [kind |-> "ok", cards |-> <<>>],
                          listings |-> <<>>, result |-> PendingResult]]

NextBrowser ==
    \/ \E r \in PairIds, b \in Behaviours("zillow") : search_called(r, b)
    \/ \E r \in PairIds : initialize_browser_returns(r)
    \/ \E r \in PairIds : create_page_returns(r)
    \/ \E r \in PairIds : goto_returns(r)
    \/ \E r \in PairIds : handle_rate_limiting_returns(r)
    \/ \E r \in PairIds : extract_listings_returns(r)
    \/ \E r \in PairIds : close_browser_returns(r)
    \/ \E r \in PairIds : handler_close_browser_returns(r)

SpecBrowser == InitBrowser /\ [][NextBrowser]_vars

-----------------------------------------------------------------------------
(* Properties of the pipeline coordinator (Spec) *)

Terminal == {"complete", "error"}

StatusRank(status) ==
    CASE status = "pending" -> 0
      [] status = "scraping" -> 1
      [] status = "evaluating" -> 2
      [] status = "complete" -> 3
      [] status = "error" -> 4

InRange(progress) == RatLeq(Num(0), progress) /\ RatLeq(progress, Num(100))

StatusRead(r) == r.endpoint = "status" /\ r.code = 200

Raised(s) ==
    calls[s].evaluator_raised + calls[s].arguer_raised
        + calls[s].compiler_raised

\* C1: the progress value of a session never decreases from one state to the
\* next and lies in [0,100]; so every status read answers a progress in
\* [0,100], and of two successive status reads of a session the later one
\* never answers a smaller progress than the earlier one, whatever listings
\* the collector returned and whichever evaluator, arguer or compiler calls
\* raised, also when the run ends in error.
C1_ProgressMonotone ==
    [][/\ \A s \in DOMAIN search_sessions :
             /\ s \in DOMAIN search_sessions'
             /\ RatLeq(search_sessions[s].progress,
                       search_sessions'[s].progress)
       /\ \A s \in DOMAIN search_sessions' :
             InRange(search_sessions'[s].progress)
       /\ StatusRead(response') => InRange(response'.body.progress)
       /\ (/\ StatusRead(response)
           /\ StatusRead(response')
           /\ response'.session = response.session)
              => RatLeq(response.body.progress, response'.body.progress)
      ]_vars

\* C1 witness: a status read during the enrichment stages answered a progress
\* above 50 after a per-listing call had raised
C1_Witness ==
    /\ StatusRead(response)
    /\ response.body.status = "evaluating"
    /\ ~RatLeq(response.body.progress, Num(50))
    /\ Raised(response.session) >= 1

\* C2: a session is created with status pending; afterwards its status only
\* stays or moves forward in the order pending, scraping, evaluating,
\* complete, or moves to error from a status that is not terminal; complete
\* and error are never left.
C2_StatusForward ==
    [][\A s \in DOMAIN search_sessions' :
          IF s \notin DOMAIN search_sessions
          THEN search_sessions'[s].status = "pending"
          ELSE LET old == search_sessions[s].status
                   new == search_sessions'[s].status
               IN  \/ new = old
                   \/ /\ old \notin Terminal
                      /\ new = "error" \/ StatusRank(new) > StatusRank(old)
      ]_vars

\* C2 witness: a session went all the way to complete through the three
\* enrichment stages
C2_Witness ==
    \E s \in DOMAIN search_sessions :
        /\ search_sessions[s].status = "complete"
        /\ calls[s].evaluator >= 1
        /\ calls[s].compiler >= 1

\* C3: once a collaborator call has raised for a listing the session is never
\* in error, and a run whose collector returned n listings ends complete with
\* exactly n minus (number of evaluator, arguer and compiler calls that
\* raised) final reports.
C3_PerItemIsolation ==
    \A s \in DOMAIN search_sessions :
        /\ Raised(s) > 0 => search_sessions[s].status # "error"
        /\ (task[s].pc = "done" /\ calls[s].adapters # <<>>) =>
              /\ search_sessions[s].status = "complete"
              /\ Len(search_sessions[s].final_reports) =
                     Len(search_sessions[s].listings) - Raised(s)

\* C3 witness: two listings, one evaluator call raised, everything else
\* succeeded: complete with one report
C3_Witness ==
    \E s \in DOMAIN search_sessions :
        /\ search_sessions[s].status = "complete"
        /\ Len(search_sessions[s].listings) = 2
        /\ calls[s].evaluator_raised = 1
        /\ calls[s].arguer_raised = 0
        /\ calls[s].compiler_raised = 0
        /\ Len(search_sessions[s].final_reports) = 1

NoPreferences(c) ==
    c \notin DOMAIN chat_sessions \/ chat_sessions[c] = None

\* C4: when the chat session of a started run is missing or has preferences
\* None, the session is in error with one of the two descriptive messages,
\* the run is over and no collector, evaluator, arguer or compiler call was
\* made.
C4_NoPreferencesHalts ==
    \A s \in DOMAIN search_sessions :
        (task[s].pc # "queued" /\ NoPreferences(task[s].chat_session_id)) =>
            /\ search_sessions[s].status = "error"
            /\ search_sessions[s].message =
                   (IF task[s].chat_session_id \in DOMAIN chat_sessions
                    THEN "No preferences found"
                    ELSE "Chat session not found")
            /\ task[s].pc = "done"
            /\ calls[s] = NoCalls

\* C4 witness: a run found its chat session without preferences and halted
C4_Witness ==
    \E s \in DOMAIN search_sessions :
        /\ task[s].pc = "done"
        /\ task[s].chat_session_id = "chat_empty"
        /\ search_sessions[s].message = "No preferences found"

AllAdaptersFailed(s) ==
    /\ calls[s].adapters # <<>>
    /\ \A i \in 1..Len(calls[s].adapters) : calls[s].adapters[i] # "ok"

\* C5: a finished run in which every source adapter failed, or in which the
\* evaluator raised for every listing, is complete with progress 100 and the
\* collections downstream of the failure are empty.
C5_AggregateDegradation ==
    \A s \in DOMAIN search_sessions :
        (task[s].pc = "done" /\ calls[s].adapters # <<>>) =>
            /\ search_sessions[s].status = "complete"
            /\ search_sessions[s].progress = Num(100)
            /\ AllAdaptersFailed(s) =>
                  /\ search_sessions[s].listings = <<>>
                  /\ search_sessions[s].evaluated_listings = <<>>
                  /\ search_sessions[s].argued_listings = <<>>
                  /\ search_sessions[s].final_reports = <<>>
            /\ calls[s].evaluator_raised = Len(search_sessions[s].listings) =>
                  /\ search_sessions[s].evaluated_listings = <<>>
                  /\ search_sessions[s].argued_listings = <<>>
                  /\ search_sessions[s].final_reports = <<>>

Position(listings, listing) ==
    CHOOSE i \in 1..Len(listings) : listings[i] = listing

\* C6: the final reports of a complete session are in descending final_score
\* order, and two reports with the same final_score are in the order in which
\* their listings came from the collector.
C6_SortedStable ==
    \A s \in DOMAIN search_sessions :
        search_sessions[s].status = "complete" =>
            LET reports == search_sessions[s].final_reports
                listings == search_sessions[s].listings
            IN  \A i, j \in 1..Len(reports) :
                    i < j =>
                       /\ reports[i].final_score >= reports[j].final_score
                       /\ reports[i].final_score = reports[j].final_score =>
                              Position(listings, reports[i].listing)
                                  < Position(listings, reports[j].listing)

\* C6 witness: a complete session with two reports of the same final_score
C6_Witness ==
    \E s \in DOMAIN search_sessions :
        /\ search_sessions[s].status = "complete"
        /\ Len(search_sessions[s].final_reports) = 2
        /\ search_sessions[s].final_reports[1].final_score
               = search_sessions[s].final_reports[2].final_score

ResultKeys ==
    {"listings", "evaluated_listings", "argued_listings", "final_reports"}

\* C7: in every state a request can observe, a session whose status is
\* complete holds its four result collections, they are the ones the run
\* produced, and the run is over; a final-results answer with code 200 is
\* the session's committed final report list.
C7_CompleteImpliesCommitted ==
    /\ \A s \in DOMAIN search_sessions :
           search_sessions[s].status = "complete" =>
               /\ ResultKeys \subseteq DOMAIN search_sessions[s]
               /\ task[s].pc = "done"
               /\ search_sessions[s].listings = task[s].listings
               /\ search_sessions[s].evaluated_listings
                      = task[s].evaluated_listings
               /\ search_sessions[s].argued_listings = task[s].argued_listings
               /\ search_sessions[s].final_reports = task[s].final_reports
    /\ (response.endpoint = "final-results" /\ response.code = 200) =>
           /\ "final_reports" \in DOMAIN search_sessions[response.session]
           /\ response.body = search_sessions[response.session].final_reports

\* C7 witness: a caller fetched the final results of a complete session and
\* got its reports
C7_Witness ==
    /\ response.endpoint = "final-results"
    /\ response.code = 200
    /\ Len(response.body) >= 1

-----------------------------------------------------------------------------
(* Properties of the candidate collector (SpecCollect) *)

FromSource(listings, source) ==
    {i \in 1..Len(listings) : listings[i].source = source}

\* the gathered results with those of the failed scrapers taken out
SucceededOnly ==
    [i \in 1..Len(Scrapers) |->
        IF outcome[i] = "ok" THEN results[i] ELSE ExceptionResult]

\* C8: when search_all_platforms has returned, a scraper whose search failed
\* (an exception inside search, whether or not search itself raised)
\* contributes no listing to the merged list, and the result is the
\* deduplicated list of the listings of the scrapers that succeeded.
C8_FailedAdapterContributesNothing ==
    collected # None =>
        /\ \A i \in 1..Len(Scrapers) :
               outcome[i] # "ok" =>
                   FromSource(all_listings(results), Scrapers[i]) = {}
        /\ collected[1] = _deduplicate_listings(all_listings(SucceededOnly))

\* C13: each scraper hands the collector at most max_results (20) listings,
\* however many cards its page holds, so the merged list before
\* deduplication has at most 20 listings per scraper.
C13_PerAdapterCap ==
    /\ \A i \in 1..Len(results) :
           results[i].type = "list" => Len(results[i].value) <= max_results
    /\ Len(all_listings(results)) <= max_results * Len(Scrapers)
    /\ collected # None => Len(collected[1]) <= max_results * Len(Scrapers)

\* C13 witness: every scraper met a page of more than 20 cards and the list
\* merged by the collector holds exactly 20 listings of each
C13_Witness ==
    /\ collected # None
    /\ \A i \in 1..Len(Scrapers) :
           /\ met[i] > max_results
           /\ Len(results[i].value) = max_results
    /\ Len(all_listings(results)) = max_results * Len(Scrapers)

-----------------------------------------------------------------------------
(* Properties of deduplication (SpecDedup) *)

Norm(listing) == _normalize_address(listing.address)

\* C9: the deduplicated list has no two listings with the same normalized
\* address, has a listing for every normalized address of the input, and
\* each of its listings is the earliest input listing with that normalized
\* address; "123 Main St" and "123 Main Street", in either order, leave
\* exactly the first of the two.
C9_KeepsFirstPerAddress ==
    dd_out # None =>
        LET out == dd_out[1]
        IN  /\ \A i, j \in 1..Len(out) : i # j => Norm(out[i]) # Norm(out[j])
            /\ \A i \in 1..Len(dd_in) :
                   \E k \in 1..Len(out) : Norm(out[k]) = Norm(dd_in[i])
            /\ \A k \in 1..Len(out) :
                   \E i \in 1..Len(dd_in) :
                       /\ dd_in[i] = out[k]
                       /\ \A j \in 1..(i - 1) : Norm(dd_in[j]) # Norm(out[k])
            /\ (/\ Len(dd_in) = 2
                /\ {dd_in[1].address, dd_in[2].address}
                       = {Addr_MainSt, Addr_MainStreet})
                   => out = <<dd_in[1]>>

\* C9 witness: "123 Main St" then "123 Main Street" went in, the first came
\* out alone
C9_Witness ==
    /\ Len(dd_in) = 2
    /\ dd_in[1].address = Addr_MainSt
    /\ dd_in[2].address = Addr_MainStreet
    /\ dd_out = Some(<<dd_in[1]>>)

\* C10: deduplicating the output of a deduplication returns that output:
\* the same listings in the same order.
C10_Idempotent ==
    dd_again # None => dd_again[1] = dd_out[1]

\* C10 witness: a list that lost duplicates the first time, and kept more
\* than one listing, was deduplicated a second time
C10_Witness ==
    /\ dd_again # None
    /\ Len(dd_out[1]) < Len(dd_in)
    /\ Len(dd_out[1]) >= 2

-----------------------------------------------------------------------------
(* Properties of address normalization (SpecNormalize) *)

\* the punctuation characters of the addresses explored
Punctuation == {".", ",", "#"}

RECURSIVE RemoveChars(_, _)
RemoveChars(s, chars) ==
    IF s = <<>> THEN <<>>
    ELSE IF Head(s) \in chars THEN RemoveChars(Tail(s), chars)
         ELSE <<Head(s)>> \o RemoveChars(Tail(s), chars)

\* the words of an address with case, whitespace and punctuation put aside
FormatFreeWords(address) == Split(RemoveChars(Lower(address), Punctuation))

\* a street-type word, whole, replaced by its short form
ShortForm(word) ==
    CASE word = W_street -> W_st
      [] word = W_avenue -> W_ave
      [] word = W_boulevard -> W_blvd
      [] word = W_drive -> W_dr
      [] word = W_road -> W_rd
      [] OTHER -> word

\* two addresses differ by nothing but letter case, whitespace, punctuation
\* or a street-type word replaced by its short form
SameUnderListedRules(a, b) ==
    LET wa == FormatFreeWords(a)
        wb == FormatFreeWords(b)
    IN  /\ Len(wa) = Len(wb)
        /\ \A i \in 1..Len(wa) : ShortForm(wa[i]) = ShortForm(wb[i])

\* two addresses differ by nothing but letter case, runs of whitespace or
\* punctuation characters
SameButFormat(a, b) == FormatFreeWords(a) = FormatFreeWords(b)

\* C11: two addresses that differ by anything other than letter case,
\* whitespace, punctuation or a street-type word replaced by its short form
\* never get the same normalized address, so their listings are never
\* merged; a difference inside a longer word does not make them duplicates.
C11_OnlyListedRulesMerge ==
    na_out # None =>
        (na_out[1][1] = na_out[1][2]
            => SameUnderListedRules(na_in[1], na_in[2]))

\* C12: two addresses that differ only in letter case, in runs of whitespace
\* or in punctuation characters get the same normalized address.
C12_FormatDifferencesMerge ==
    na_out # None =>
        (SameButFormat(na_in[1], na_in[2])
            => na_out[1][1] = na_out[1][2])

-----------------------------------------------------------------------------
(* Properties of the personalized score (SpecScore) *)

ScoreBase == Get(sc_in.features, "final_score", Num(5))

\* 5 + the sum over the features of weight * value
ScoreLearned ==
    RatAdd(Num(5),
           weighted_sum(DOMAIN sc_in.features, sc_in.features, sc_in.weights))

Clamp(x, lo, hi) == RatMax(lo, RatMin(hi, x))

\* C18: the personalized score lies in [0, 10] for every feature dictionary
\* and every weight dictionary.
C18_ScoreInRange ==
    sc_out # None =>
        /\ ~RatLess(sc_out[1], Num(0))
        /\ ~RatLess(Num(10), sc_out[1])

\* C18 witness: one blend above 10 came out as 10, or one below 0 as 0
C18_Witness ==
    /\ sc_out # None
    /\ LET blend == RatAdd(RatMul(Rat(7, 10), ScoreBase),
                           RatMul(Rat(3, 10), ScoreLearned))
       IN  \/ RatLess(Num(10), blend) /\ sc_out[1] = Num(10)
           \/ RatLess(blend, Num(0)) /\ sc_out[1] = Num(0)

\* C19: the personalized score is
\* clamp(0.7 * final_score + 0.3 * clamp(5 + sum of weight * value, 0, 10),
\* 0, 10), so it lies between 0.7 * final_score and 0.7 * final_score + 3.
C19_LearnedTermClamped ==
    sc_out # None =>
        /\ sc_out[1] =
               Clamp(RatAdd(RatMul(Rat(7, 10), ScoreBase),
                            RatMul(Rat(3, 10),
                                   Clamp(ScoreLearned, Num(0), Num(10)))),
                     Num(0), Num(10))
        /\ ~RatLess(sc_out[1], RatMul(Rat(7, 10), ScoreBase))
        /\ ~RatLess(RatAdd(RatMul(Rat(7, 10), ScoreBase), Num(3)), sc_out[1])

-----------------------------------------------------------------------------
(* Properties of the preference learner (SpecLearner) *)

\* the feedback events stored for a session
Events(session_id) == GetWhere(feedback_collection, session_id)

\* out holds the reports of in, highest final_score first, reports of equal
\* final_score in their order of in
SortedByFinalScore(in, out) ==
    /\ Len(out) = Len(in)
    /\ Range(out) = Range(in)
    /\ \A i, j \in 1..Len(out) :
           i < j =>
              /\ out[i].final_score >= out[j].final_score
              /\ out[i].final_score = out[j].final_score
                     => Position(in, out[i]) < Position(in, out[j])

\* C14: a session's feedback history holds at most one event per listing
\* id, in the collection and as get_feedback_history returns it, and a
\* record_feedback call leaves the event of its listing with the action of
\* the call and every other event as it was.
C14_LastWriteWins ==
    /\ [](\A a, b \in DOMAIN feedback_collection :
              (/\ feedback_collection[a].metadata.session_id
                     = feedback_collection[b].metadata.session_id
               /\ feedback_collection[a].metadata.listing_id
                     = feedback_collection[b].metadata.listing_id)
                  => a = b)
    /\ [][(ret' # None /\ ret'[1].op = "record_feedback") =>
              LET feedback == ret'[1].feedback
                  Mine(entry) ==
                      /\ entry.metadata.session_id = feedback.session_id
                      /\ entry.metadata.listing_id = feedback.listing_id
              IN  /\ \E id \in DOMAIN feedback_collection' :
                         /\ Mine(feedback_collection'[id])
                         /\ feedback_collection'[id].metadata.action
                                = feedback.action
                         /\ feedback_collection'[id].document.action
                                = feedback.action
                  /\ \A id \in DOMAIN feedback_collection' :
                         ~Mine(feedback_collection'[id]) =>
                            /\ id \in DOMAIN feedback_collection
                            /\ feedback_collection'[id]
                                   = feedback_collection[id]
                  /\ \A id \in DOMAIN feedback_collection :
                         id \in DOMAIN feedback_collection']_vars
    /\ []((ret # None /\ ret[1].op = "get_feedback_history") =>
              \A i, j \in 1..Len(ret[1].value) :
                  ret[1].value[i].listing_id = ret[1].value[j].listing_id
                      => i = j)

\* C14 witness: a dislike was recorded for a listing that had a like; the
\* history holds one event, a dislike
C14_Witness ==
    /\ ret # None
    /\ ret[1].op = "record_feedback"
    /\ ret[1].feedback.action = "dislike"
    /\ ret[1].replaced = Some("like")
    /\ Len(Events(ret[1].feedback.session_id)) = 1
    /\ Events(ret[1].feedback.session_id)[1].metadata.action = "dislike"

\* C15: with exactly one feedback event in a session no weights are stored
\* and get_ranked_listings gives the final_score order; with two or more
\* events of opposite labels and a feature that varies over the events, a
\* non-empty weight map is stored.
C15_WeightsNeedTwoEvents ==
    \A s \in SessionIds :
        LET events == Events(s)
            actions == {events[i].metadata.action : i \in 1..Len(events)}
            Varies(name) ==
                \E i, j \in 1..Len(events) :
                    events[i].document.features[name]
                        # events[j].document.features[name]
        IN  /\ Len(events) = 1 =>
                   /\ s \notin DOMAIN preference_weights_collection
                   /\ (/\ ret # None
                       /\ ret[1].op = "get_ranked_listings"
                       /\ ret[1].session_id = s)
                          => SortedByFinalScore(ret[1].listings, ret[1].value)
            /\ (/\ Len(events) >= 2
                /\ actions = {"like", "dislike"}
                /\ \E name \in Range(FeatureNames) : Varies(name))
                   => /\ s \in DOMAIN preference_weights_collection
                      /\ DOMAIN preference_weights_collection[s]
                             .document.weights # {}

\* C15 witness: two events of opposite labels left a stored weight that is
\* not zero
C15_Witness ==
    \E s \in SessionIds :
        /\ Len(Events(s)) = 2
        /\ Events(s)[1].metadata.action # Events(s)[2].metadata.action
        /\ s \in DOMAIN preference_weights_collection
        /\ \E name \in Range(FeatureNames) :
               preference_weights_collection[s].document.weights[name]
                   # Num(0)

\* C16: for a session with no stored weights get_ranked_listings returns
\* the input reports sorted by final_score descending, reports of equal
\* final_score in their input order: a permutation of the input.
C16_FallbackRanking ==
    (/\ ret # None
     /\ ret[1].op = "get_ranked_listings"
     /\ ret[1].session_id \notin DOMAIN preference_weights_collection)
        => SortedByFinalScore(ret[1].listings, ret[1].value)

\* C16 witness: a list that was not in final_score order and held two
\* reports of the same final_score was ranked with no stored weights
C16_Witness ==
    /\ ret # None
    /\ ret[1].op = "get_ranked_listings"
    /\ ret[1].session_id \notin DOMAIN preference_weights_collection
    /\ ret[1].value # ret[1].listings
    /\ \E i, j \in 1..Len(ret[1].listings) :
           /\ i # j
           /\ ret[1].listings[i].final_score
                  = ret[1].listings[j].final_score

\* C17: get_next_listing never returns a report whose listing id is in the
\* seen ids; it returns None exactly when every available report is seen;
\* a returned report is the first of get_ranked_listings on the unseen
\* reports.
C17_NextIsBestUnseen ==
    (ret # None /\ ret[1].op = "get_next_listing") =>
        LET available == ret[1].available_listings
            seen == Range(ret[1].seen_listing_ids)
            unseenAt == {i \in 1..Len(available) :
                            available[i].listing.id \notin seen}
            Unseen(report) == report.listing.id \notin seen
            ranked == get_ranked_listings(preference_weights_collection,
                                          ret[1].session_id,
                                          SelectSeq(available, Unseen))
            value == ret[1].value
        IN  /\ value = None <=> unseenAt = {}
            /\ value # None =>
                   /\ value[1].listing.id \notin seen
                   /\ \E i \in unseenAt : available[i] = value[1]
                   /\ ranked # <<>>
                   /\ value[1] = ranked[1]

\* C17 witness: with learned weights stored, the best available report was
\* seen and another one was returned
C17_Witness ==
    /\ ret # None
    /\ ret[1].op = "get_next_listing"
    /\ ret[1].session_id \in DOMAIN preference_weights_collection
    /\ ret[1].value # None
    /\ Len(ret[1].available_listings) >= 2
    /\ get_ranked_listings(preference_weights_collection, ret[1].session_id,
                           ret[1].available_listings)[1].listing.id
           \in Range(ret[1].seen_listing_ids)

-----------------------------------------------------------------------------
(* The endpoints reject what they cannot serve *)

\* the endpoints that take a search session id
SessionEndpoints ==
    {"status", "results", "evaluated-results", "final-results", "feedback",
     "next", "insights", "ranked-results"}

\* those of them that serve the results of a complete search
ResultEndpoints ==
    {"results", "evaluated-results", "final-results", "feedback", "next",
     "ranked-results"}

\* C20: whenever an endpoint that takes a search session id answers, it
\* answers 404 (not found) if the id is not a key of search_sessions, and if
\* it is one of the result, feedback, next and ranking endpoints it answers
\* 400 (bad state) for a session whose status is not complete; a rejected
\* feedback request writes nothing
C20_RejectsUnknownAndIncomplete ==
    [][response'.endpoint \in SessionEndpoints =>
           LET sid == response'.session
           IN  /\ sid \notin DOMAIN search_sessions =>
                      /\ response'.code = 404
                      /\ UNCHANGED <<feedback_collection,
                                     preference_weights_collection,
                                     seen_listings>>
               /\ (/\ sid \in DOMAIN search_sessions
                   /\ search_sessions[sid].status # "complete"
                   /\ response'.endpoint \in ResultEndpoints) =>
                      /\ response'.code = 400
                      /\ UNCHANGED <<feedback_collection,
                                     preference_weights_collection,
                                     seen_listings>>]_vars

\* the ranking of a session that is still evaluating was asked for and
\* answered 400
C20_Witness ==
    /\ response.endpoint = "ranked-results"
    /\ response.session \in DOMAIN search_sessions
    /\ search_sessions[response.session].status = "evaluating"
    /\ response.code = 400

-----------------------------------------------------------------------------
(* What the next endpoint answers for a complete session *)

\* C21: for a complete session the next endpoint answers 200, with a final
\* report of the session whose listing id is not in the seen list, or with
\* the "none" answer (listing None, all_seen true); it answers "none" exactly
\* when every final report of the session has been seen, a session with no
\* final report included.
C21_NextIsUnseenOrNone ==
    [][(/\ response'.endpoint = "next"
        /\ response'.session \in DOMAIN search_sessions
        /\ search_sessions[response'.session].status = "complete") =>
           LET sid == response'.session
               final_reports ==
                   Get(search_sessions[sid], "final_reports", <<>>)
               seen == Range(Get(seen_listings, sid, <<>>))
               every_seen == \A i \in 1..Len(final_reports) :
                                 final_reports[i].listing.id \in seen
           IN  /\ response'.code = 200
               /\ response'.body.all_seen = every_seen
               /\ IF every_seen
                  THEN response'.body.listing = None
                  ELSE \E i \in 1..Len(final_reports) :
                           /\ response'.body.listing = Some(final_reports[i])
                           /\ final_reports[i].listing.id \notin seen]_vars

-----------------------------------------------------------------------------
(* The handler of the outer try (lines 158-161) *)

\* C22: when an exception that no per-item handler catches ends a run that
\* is past its preference checks (the collector call raising), the session
\* goes to error with the exception's message in that one step, the run is
\* over, and the step changes no key of the session but status and message:
\* progress and the collections keep the values they had.
C22_ErrorKeepsCommitted ==
    [][\A s \in DOMAIN search_sessions :
          (/\ task[s].pc \notin {"queued", "done"}
           /\ search_sessions'[s].status = "error") =>
              LET old == search_sessions[s]
                  new == search_sessions'[s]
              IN  /\ old.status \in {"scraping", "evaluating"}
                  /\ new.message = "search_all_platforms failed"
                  /\ task'[s].pc = "done"
                  /\ DOMAIN new = DOMAIN old
                  /\ \A k \in DOMAIN old \ {"status", "message"} :
                         new[k] = old[k]
      ]_vars

\* C22 witness: the collector call of a run raised: the session is in error
\* with the exception's message and still has the progress of the scraping
\* stage and its listings key
C22_Witness ==
    \E s \in DOMAIN search_sessions :
        /\ search_sessions[s].status = "error"
        /\ search_sessions[s].message = "search_all_platforms failed"
        /\ search_sessions[s].progress = Num(20)
        /\ search_sessions[s].listings = <<>>
        /\ calls[s].collector = 1
        /\ task[s].pc = "done"

-----------------------------------------------------------------------------
(* Two sessions in the stores (SpecPair) *)

\* the feedback events stored under the ids of a session
OwnEvents(b) ==
    LET ids == {id \in DOMAIN feedback_collection : id[1] = b}
    IN  [id \in ids |-> feedback_collection[id]]

\* everything the stores hold for session b
SessionView(b) ==
    [session |-> IF b \in DOMAIN search_sessions
                 THEN Some(search_sessions[b]) ELSE None,
     run |-> IF b \in DOMAIN task THEN Some(task[b]) ELSE None,
     events |-> OwnEvents(b),
     weights |-> IF b \in DOMAIN preference_weights_collection
                 THEN Some(preference_weights_collection[b]) ELSE None,
     seen |-> Get(seen_listings, b, <<>>)]

-----------------------------------------------------------------------------
(* Two runs on the one ZillowScraper instance (SpecBrowser) *)

\* C24: the search() call of a run returns what it returns when the run is
\* alone on the scraper, whatever the other session's run does meanwhile:
\* the listings of the cards its page shows, the mock listings when its own
\* page failed, an exception when its own handler failed.
C24_RunsDoNotInterfere ==
    \A r \in PairIds :
        search_task[r].pc = "done" =>
            search_task[r].result = search("zillow", Preferences, search_task[r].b)

-----------------------------------------------------------------------------
(* The stored weights and the feedback history (SpecFeedback) *)

\* C25: whenever the history of a session has at least two events, the
\* stored weights document of the session holds the weights computed from
\* all the events the history has now (one per listing, each with its latest
\* action) and its sample size is the number of those events.
C25_WeightsFromFullHistory ==
    \A s \in SessionIds :
        LET rows == Events(s)
            feature_vectors == [i \in 1..Len(rows) |-> rows[i].document.features]
            labels == [i \in 1..Len(rows) |->
                          IF rows[i].metadata.action = "like" THEN 1 ELSE 0 - 1]
        IN  Len(rows) >= 2 =>
                /\ s \in DOMAIN preference_weights_collection
                /\ LET stored == preference_weights_collection[s]
                   IN  /\ stored.document.sample_size = Len(rows)
                       /\ stored.metadata.sample_size = Len(rows)
                       /\ stored.document.weights =
                              _calculate_feature_weights(feature_vectors, labels)

\* C25 witness: a record_feedback call has just overwritten the like of a
\* listing with a dislike in a history of three events, and the weights
\* document counts three events
C25_Witness ==
    /\ ret # None
    /\ ret[1].op = "record_feedback"
    /\ ret[1].replaced = Some("like")
    /\ ret[1].feedback.action = "dislike"
    /\ \E s \in SessionIds :
           /\ Len(Events(s)) = 3
           /\ s \in DOMAIN preference_weights_collection
           /\ preference_weights_collection[s].document.sample_size = 3

-----------------------------------------------------------------------------
(* Degenerate statistics (SpecFeedback) *)

\* every event of the rows has the same value of the feature
ConstantFeature(rows, feature_name) ==
    \A i, j \in 1..Len(rows) :
        rows[i].document.features[feature_name]
            = rows[j].document.features[feature_name]

\* every event of the rows has the same action
ConstantLabels(rows) ==
    \A i, j \in 1..Len(rows) : rows[i].metadata.action = rows[j].metadata.action

-----------------------------------------------------------------------------
(* Defaults of the feature vector (SpecFeedback) *)

\* the value of an optional field, the default only when the field is absent
PresentOr(x, default) == IF x = None THEN default ELSE x[1]

\* C27: in the features stored with every feedback event, each of the four
\* evaluation sub-score features is the report's sub-score when it is
\* present, 0 included, and 5 only when it is absent, and days_on_market is
\* the listing's days_on_market / 100 when it is present and 30 / 100 only
\* when it is absent.
C27_DefaultsOnlyWhenAbsent ==
    \A id \in DOMAIN feedback_collection :
        \A k \in 1..MaxReports :
            CatalogueListing(k).id = id[2] =>
                LET features == feedback_collection[id].document.features
                    evaluation == CatalogueReport(k).evaluation
                IN  /\ \A f \in {"crime_score", "school_score",
                                 "walkability_score", "affordability_score"} :
                           features[f] = Num(PresentOr(evaluation[f], 5))
                    /\ features.days_on_market
                           = Rat(PresentOr(CatalogueListing(k).days_on_market,
                                           30), 100)

-----------------------------------------------------------------------------
(* Termination of a pipeline run (SpecLive) *)

Finished(s) ==
    /\ s \in DOMAIN search_sessions
    /\ search_sessions[s].status \in {"complete", "error"}

\* C28: when every collaborator call returns or raises, every started
\* pipeline run reaches the status complete or error, and in every state a
\* started run that has not finished can take a step.
C28_EveryRunEnds ==
    /\ [](\A s \in SessionIds :
              (s \in DOMAIN search_sessions /\ ~Finished(s))
                  => ENABLED PipelineStep(s))
    /\ \A s \in SessionIds : (s \in DOMAIN search_sessions) ~> Finished(s)

\* C28 witness: a run in which an evaluate call and a compile call raised
\* has reached complete
C28_Witness ==
    \E s \in SessionIds :
        /\ Finished(s)
        /\ search_sessions[s].status = "complete"
        /\ task[s].pc = "done"
        /\ calls[s].evaluator_raised >= 1
        /\ calls[s].compiler_raised >= 1

-----------------------------------------------------------------------------
(* Progress and stage (Spec) *)

\* lo <= p <= hi
Within(p, lo, hi) == ~RatLess(p, Num(lo)) /\ ~RatLess(Num(hi), p)

\* the sub-stage of a run: the call its task awaits
SubStageBounds ==
    [evaluate |-> <<50, 70>>, argue |-> <<70, 85>>, compile |-> <<85, 95>>]

\* the items a sub-stage iterates over and the items it has produced
StageInput(t, pc) ==
    IF pc = "evaluate" THEN t.listings
    ELSE IF pc = "argue" THEN t.evaluated_listings
    ELSE t.argued_listings

StageOutput(t, pc) ==
    IF pc = "evaluate" THEN t.evaluated_listings
    ELSE IF pc = "argue" THEN t.argued_listings
    ELSE t.final_reports

\* C29: progress is 20 while the status is scraping, within [50,70], [70,85]
\* and [85,95] while the run awaits an evaluate, an argue and a compile call,
\* and 100 exactly when the status is complete; and when the i-th of the n
\* items of a sub-stage succeeds, progress becomes start + width * i / n
\* (for the last compiled report the run goes on to complete without an
\* await in between, and progress is 100).
C29_ProgressTiedToStage ==
    /\ [](\A s \in DOMAIN search_sessions :
              LET sess == search_sessions[s]
                  pc == task[s].pc
              IN  /\ sess.status = "scraping" => sess.progress = Num(20)
                  /\ pc \in DOMAIN SubStageBounds =>
                         /\ sess.status = "evaluating"
                         /\ Within(sess.progress, SubStageBounds[pc][1],
                                   SubStageBounds[pc][2])
                  /\ sess.status = "evaluating" => pc \in DOMAIN SubStageBounds
                  /\ sess.progress = Num(100) <=> sess.status = "complete")
    /\ [][\A s \in DOMAIN search_sessions :
              LET pc == task[s].pc
                  t == task[s]
              IN  (/\ pc \in DOMAIN SubStageBounds
                   /\ Len(StageOutput(task'[s], pc))
                          = Len(StageOutput(t, pc)) + 1)
                      => LET n == Len(StageInput(t, pc))
                             start == SubStageBounds[pc][1]
                             width == SubStageBounds[pc][2] - start
                         IN  search_sessions'[s].progress
                                 = IF pc = "compile" /\ t.i = n
                                   THEN Num(100)
                                   ELSE Rat(start * n + width * t.i, n)]_vars

\* C29 witness: the first of two argued listings is compiled and the run
\* awaits the second compile call: progress is 85 + 10 * 1 / 2
C29_Witness ==
    \E s \in DOMAIN search_sessions :
        /\ task[s].pc = "compile"
        /\ task[s].i = 2
        /\ Len(task[s].argued_listings) = 2
        /\ Len(task[s].final_reports) = 1
        /\ search_sessions[s].status = "evaluating"
        /\ search_sessions[s].progress = Num(90)

-----------------------------------------------------------------------------
(* One collector call and no retries (Spec) *)

SubStages == DOMAIN SubStageBounds

StageCounter ==
    [evaluate |-> "evaluator", argue |-> "arguer", compile |-> "compiler"]

StageRaised ==
    [evaluate |-> "evaluator_raised", argue |-> "arguer_raised",
     compile |-> "compiler_raised"]

\* the listing id of an item of a stage: a listing, or a record around one
ItemId(x) == IF "listing" \in DOMAIN x THEN x.listing.id ELSE x.id

IdsOf(items) == {ItemId(items[k]) : k \in DOMAIN items}

\* the run of session s got past the two checks of lines 43-53
PassedChecks(s) ==
    /\ task[s].pc # "queued"
    /\ ~(/\ search_sessions[s].status = "error"
         /\ search_sessions[s].message
                \in {"Chat session not found", "No preferences found"})

\* the k-th call of a stage is made on the k-th item of the stage's input,
\* which is fixed while the stage runs; every call is pending, has raised or
\* has produced one output; the item of a call that raised is not among the
\* stage's outputs, which are the next stage's input
NoRetries ==
    /\ [](\A s \in DOMAIN task : \A st \in SubStages :
              LET t == task[s]
                  c == calls[s]
                  in == StageInput(t, st)
                  out == StageOutput(t, st)
              IN  /\ c[StageCounter[st]] <= Len(in)
                  /\ c[StageCounter[st]]
                         = Len(out) + c[StageRaised[st]]
                               + (IF t.pc = st THEN 1 ELSE 0)
                  /\ Cardinality(IdsOf(in)) = Len(in)
                  /\ IdsOf(out) \subseteq IdsOf(in))
    /\ [][\A s \in DOMAIN task : \A st \in SubStages :
              LET t == task[s]
                  c == calls[s]
              IN  /\ calls'[s][StageCounter[st]] # c[StageCounter[st]] =>
                         /\ calls'[s][StageCounter[st]]
                                = c[StageCounter[st]] + 1
                         /\ task'[s].pc = st
                         /\ task'[s].i = calls'[s][StageCounter[st]]
                  /\ t.pc = st =>
                         StageInput(task'[s], st) = StageInput(t, st)
                  /\ calls'[s][StageRaised[st]] # c[StageRaised[st]] =>
                         /\ t.pc = st
                         /\ calls'[s][StageRaised[st]]
                                = c[StageRaised[st]] + 1
                         /\ ItemId(StageInput(t, st)[t.i])
                                \notin IdsOf(StageOutput(task'[s], st))]_vars

\* C30, as stated: every finished run has invoked the collector exactly
\* once, and no stage retries.
C30_CollectorExactlyOnce ==
    /\ [](\A s \in DOMAIN task :
              task[s].pc = "done" => calls[s].collector = 1)
    /\ NoRetries

\* C30, amended: a run invokes the collector at most once, and exactly once
\* when it got past the chat-session and preferences checks (a run stopped
\* by one of them never invokes it); no stage retries: the evaluator, the
\* arguer and the compiler are invoked at most once per listing, and a
\* listing whose call raised is passed neither to that stage again nor to a
\* later stage.
C30_CollectorOnceNoRetries ==
    /\ [](\A s \in DOMAIN task :
              /\ calls[s].collector <= 1
              /\ calls[s].collector = 1 <=> PassedChecks(s))
    /\ NoRetries

\* C30 witness: a finished run of two listings: the evaluation of one
\* raised, the other went through the three stages once
C30_Witness ==
    \E s \in DOMAIN task :
        /\ task[s].pc = "done"
        /\ search_sessions[s].status = "complete"
        /\ Len(task[s].listings) = 2
        /\ calls[s].collector = 1
        /\ calls[s].evaluator = 2
        /\ calls[s].evaluator_raised = 1
        /\ calls[s].arguer = 1
        /\ calls[s].compiler = 1
        /\ Len(task[s].final_reports) = 1

-----------------------------------------------------------------------------
(* The result count in the status projection (Spec) *)

\* C31: a status read that shows status evaluating shows as listings_found
\* the number of deduplicated listings the collector returned to the run of
\* that session.
C31_ResultCountRecorded ==
    (/\ response.endpoint = "status"
     /\ response.code = 200
     /\ response.body.status = "evaluating")
        => response.body.listings_found
               = Len(task[response.session].listings)

-----------------------------------------------------------------------------
(* Stage ordering and containment (Spec) *)

\* a is b with some elements left out, the others in their order of b
RECURSIVE IsSubSequence(_, _)
IsSubSequence(a, b) ==
    IF a = <<>> THEN TRUE
    ELSE IF b = <<>> THEN FALSE
    ELSE IF a[1] = b[1] THEN IsSubSequence(Tail(a), Tail(b))
    ELSE IsSubSequence(a, Tail(b))

ListingsOf(items) == [k \in DOMAIN items |-> items[k].listing]

\* the reports an item carries were produced for the item's own listing
OwnReports(x) ==
    /\ x.evaluation.listing_id = x.listing.id
    /\ "arguments" \in DOMAIN x => x.arguments.listing_id = x.listing.id

\* the four collections of a run or of a session are contained in one
\* another
Contained(listings, evaluated_listings, argued_listings, final_reports) ==
    /\ IsSubSequence(ListingsOf(evaluated_listings), listings)
    /\ IsSubSequence(ListingsOf(argued_listings),
                     ListingsOf(evaluated_listings))
    /\ Range(ListingsOf(final_reports))
           \subseteq Range(ListingsOf(argued_listings))
    /\ \A k \in DOMAIN evaluated_listings : OwnReports(evaluated_listings[k])
    /\ \A k \in DOMAIN argued_listings :
           /\ OwnReports(argued_listings[k])
           /\ \E e \in DOMAIN evaluated_listings :
                  /\ evaluated_listings[e].listing = argued_listings[k].listing
                  /\ evaluated_listings[e].evaluation
                         = argued_listings[k].evaluation
    /\ \A k \in DOMAIN final_reports :
           /\ OwnReports(final_reports[k])
           /\ \E g \in DOMAIN argued_listings :
                  /\ argued_listings[g].listing = final_reports[k].listing
                  /\ argued_listings[g].evaluation
                         = final_reports[k].evaluation
                  /\ argued_listings[g].arguments
                         = final_reports[k].arguments

\* C32: the arguer is called on a listing only when the run holds the
\* EvaluationReport of that listing, the compiler only when it holds its
\* ArgumentReport; and the final reports' listings are among the argued
\* listings, these a sub-sequence of the evaluated listings, these a
\* sub-sequence of the collected listings, every report with the evaluation
\* and the arguments produced for its own listing, in the run throughout and
\* in the session at completion.
C32_StagesOrderedAndContained ==
    /\ [](\A s \in DOMAIN task :
              LET t == task[s]
                  sess == search_sessions[s]
              IN  /\ Contained(t.listings, t.evaluated_listings,
                               t.argued_listings, t.final_reports)
                  /\ t.pc = "argue" =>
                         /\ t.i \in DOMAIN t.evaluated_listings
                         /\ OwnReports(t.evaluated_listings[t.i])
                  /\ t.pc = "compile" =>
                         /\ t.i \in DOMAIN t.argued_listings
                         /\ OwnReports(t.argued_listings[t.i])
                  /\ sess.status = "complete" =>
                         /\ Contained(sess.listings, sess.evaluated_listings,
                                      sess.argued_listings,
                                      sess.final_reports)
                         /\ sess.listings = t.listings)
    /\ [][\A s \in DOMAIN task :
              /\ calls'[s].arguer # calls[s].arguer =>
                     /\ task'[s].pc = "argue"
                     /\ Len(task'[s].evaluated_listings) >= task'[s].i
              /\ calls'[s].compiler # calls[s].compiler =>
                     /\ task'[s].pc = "compile"
                     /\ Len(task'[s].argued_listings) >= task'[s].i]_vars

\* C32 witness: a complete session of two collected listings: the second
\* was evaluated, argued and compiled, the first dropped at evaluation
C32_Witness ==
    \E s \in DOMAIN task :
        /\ search_sessions[s].status = "complete"
        /\ Len(search_sessions[s].listings) = 2
        /\ Len(search_sessions[s].final_reports) = 1
        /\ search_sessions[s].final_reports[1].listing
               = search_sessions[s].listings[2]
        /\ calls[s].evaluator_raised = 1
        /\ calls[s].arguer = 1
        /\ calls[s].compiler = 1

-----------------------------------------------------------------------------
(* Read-only queries (SpecApi) *)

ReadOnlyEndpoints ==
    {"status", "final-results", "ranked-results", "next", "insights"}

\* what get-next would hand out for a session in the current state
NextOf(sid) ==
    get_next_listing(preference_weights_collection, sid,
                     Get(search_sessions[sid], "final_reports", <<>>),
                     Get(seen_listings, sid, <<>>))

\* C33: a step of get-status, get-final-results, get-ranked-results,
\* get-next or get-insights leaves the session store, the feedback history,
\* the weights and the seen lists, which are all that get-next reads, as
\* they were; get-final-results answers with the stored reports, sorted by
\* final_score, and these are the same before and after any feedback; two
\* get-next calls in a row on a session give the same answer.
C33_QueriesChangeNothing ==
    /\ [][response'.endpoint \in ReadOnlyEndpoints =>
              UNCHANGED <<search_sessions, feedback_collection,
                          preference_weights_collection,
                          seen_listings>>]_vars
    /\ [][\A sid \in DOMAIN search_sessions :
              /\ sid \in DOMAIN search_sessions'
              /\ Get(search_sessions'[sid], "final_reports", <<>>)
                     = Get(search_sessions[sid], "final_reports", <<>>)]_vars
    /\ [][(response'.endpoint = "final-results" /\ response'.code = 200) =>
              /\ response'.body
                     = search_sessions[response'.session].final_reports
              /\ response'.body = sort_final_reports(response'.body)]_vars
    /\ [][(/\ response.endpoint = "next"
           /\ response'.endpoint = "next"
           /\ response'.session = response.session)
              => response' = response]_vars

\* C33 witness: after a feedback event get-next has just answered with
\* the listing of the session that is not yet seen
C33_Witness ==
    /\ response.endpoint = "next"
    /\ response.code = 200
    /\ response.body.all_seen = FALSE
    /\ \E id \in DOMAIN feedback_collection : id[1] = response.session
    /\ Len(Get(seen_listings, response.session, <<>>)) = 1
    /\ response.body.listing = NextOf(response.session)

-----------------------------------------------------------------------------
(* Listing ids after deduplication (SpecIds) *)

UniqueIds(listings) ==
    \A i, j \in DOMAIN listings :
        listings[i].id = listings[j].id => i = j

\* listings[i] is the first listing of the list with its normalized address
FirstOfAddress(listings, i) ==
    \A j \in 1..(i - 1) :
        _normalize_address(listings[j].address)
            # _normalize_address(listings[i].address)

-----------------------------------------------------------------------------
(* The merged order and the completion order (SpecCollect) *)

\* the listings a settled call contributes
ListOf(r) == IF r.type = "list" THEN r.value ELSE <<>>

\* the results of the three adapters in the configured order, whatever the
\* order in which they settled
InConfiguredOrder ==
    ListOf(results[1]) \o ListOf(results[2]) \o ListOf(results[3])

\* C35: the list the collector returns is the deduplication of the adapters'
\* results taken in the configured order zillow, redfin, realtor, each in its
\* own order: it is a function of the results alone, the same for every
\* order in which the three calls settle, and of two listings of one address
\* the one of the adapter configured first survives.
C35_OrderIndependentOfCompletion ==
    collected # None =>
        /\ Scrapers = <<"zillow", "redfin", "realtor">>
        /\ collected[1] = _deduplicate_listings(InConfiguredOrder)
        /\ \A i, j \in DOMAIN InConfiguredOrder :
               (/\ i < j
                /\ InConfiguredOrder[i] \in Range(collected[1])
                /\ InConfiguredOrder[j] \in Range(collected[1]))
                   => Position(collected[1], InConfiguredOrder[i])
                          < Position(collected[1], InConfiguredOrder[j])

\* C35 witness: the calls settled in the order realtor, redfin, zillow;
\* zillow and redfin show the same address, and zillow's listing is the one
\* returned, first of the list
C35_Witness ==
    /\ collected # None
    /\ settled = <<3, 2, 1>>
    /\ ListOf(results[1]) # <<>>
    /\ ListOf(results[2]) # <<>>
    /\ _normalize_address(results[1].value[1].address)
           = _normalize_address(results[2].value[1].address)
    /\ collected[1][1] = results[1].value[1]
    /\ results[2].value[1] \notin Range(collected[1])

-----------------------------------------------------------------------------
(* The seen list (SpecApi) *)

\* the listing ids with a feedback event in the history of a session
FeedbackIds(sid) ==
    {id[2] : id \in {e \in DOMAIN feedback_collection : e[1] = sid}}

\* C36: after any sequence of submit-feedback calls the seen list of a
\* session holds no id twice, holds only ids of the session's final reports,
\* and holds exactly the listing ids that have a feedback event in the
\* session's history; there is no seen list for an id that is no session.
C36_SeenListMatchesHistory ==
    /\ DOMAIN seen_listings \subseteq DOMAIN search_sessions
    /\ \A sid \in DOMAIN search_sessions :
           LET seen == Get(seen_listings, sid, <<>>)
           IN  /\ Cardinality(Range(seen)) = Len(seen)
               /\ Range(seen)
                      \subseteq IdsOf(Get(search_sessions[sid],
                                          "final_reports", <<>>))
               /\ Range(seen) = FeedbackIds(sid)

\* C36 witness: feedback on both listings of a session has been answered;
\* both are seen, each once, and both have an event in the history
C36_Witness ==
    /\ response.endpoint = "feedback"
    /\ response.code = 200
    /\ response.body.learning_insights.total_swipes = 2
    /\ Len(Get(seen_listings, response.session, <<>>)) = 2
    /\ FeedbackIds(response.session)
           = Range(seen_listings[response.session])

-----------------------------------------------------------------------------
(* The swipe loop: get-next, then feedback on the listing it returned       *)
(* (SpecApi)                                                                *)

SeenOf(sid) == Get(seen_listings, sid, <<>>)

ReportsOf(sid) == Get(search_sessions[sid], "final_reports", <<>>)

\* the response is a listing handed out by get-next
HandedOut(r) ==
    /\ r.endpoint = "next"
    /\ r.code = 200
    /\ r.body.all_seen = FALSE

\* the swipe loop from the n-th round on: get-next hands out a report of
\* the session that is not seen and leaves the seen list alone; feedback on
\* the listing just handed out adds that listing, and no other, to the seen
\* list; and once as many rounds are done as the session has reports (n or
\* more of them), get-next reports that all listings are seen
SwipeLoop(n) ==
    \A sid \in DOMAIN search_sessions :
        (search_sessions[sid].status = "complete"
             /\ Len(ReportsOf(sid)) >= n) =>
           /\ (response'.endpoint = "next" /\ response'.session = sid) =>
                  /\ seen_listings' = seen_listings
                  /\ HandedOut(response') =>
                         /\ response'.body.listing[1].listing.id
                                \in IdsOf(ReportsOf(sid)) \ Range(SeenOf(sid))
                         /\ Len(SeenOf(sid)) < Len(ReportsOf(sid))
                  /\ Len(SeenOf(sid)) = Len(ReportsOf(sid)) =>
                         /\ response'.code = 200
                         /\ response'.body.all_seen = TRUE
                         /\ response'.body.listing = None
           /\ (/\ HandedOut(response)
               /\ response.session = sid
               /\ response'.endpoint = "feedback"
               /\ response'.session = sid
               /\ response'.code = 200
               /\ response.body.listing[1].listing.id
                      \in Range(SeenOf(sid)')) =>
                  SeenOf(sid)'
                      = Append(SeenOf(sid),
                               response.body.listing[1].listing.id)

\* C37: on a complete session with N final reports, get-next followed by
\* feedback on the returned listing presents a listing not presented
\* before, and after N rounds get-next reports that all listings are seen,
\* for every N from 0 on; get-next alone marks nothing as seen.
C37_SwipeLoopCoversAll == [][SwipeLoop(0)]_vars

\* the loop ran to its end on a session with two reports: both are seen and
\* get-next answers that all listings are seen
SwipeLoopDone ==
    /\ response.endpoint = "next"
    /\ response.code = 200
    /\ response.body.all_seen = TRUE
    /\ Len(ReportsOf(response.session)) = 2
    /\ Len(SeenOf(response.session)) = 2

-----------------------------------------------------------------------------
(* Rejected feedback (SpecApi)                                              *)

\* the three rejections of submit_feedback, lines 270-271, 275-276, 289-290
Rejections ==
    {"Search session not found", "Search not complete yet",
     "Listing not found in this session"}

\* C38: a submit-feedback call that is rejected (unknown session, session
\* not complete, listing id not among the session's final reports) stores
\* no feedback event, recomputes no weights and leaves the seen lists as
\* they were; a call for an unknown or an unfinished session is rejected.
C38_RejectedFeedbackChangesNothing ==
    [][response'.endpoint = "feedback" =>
           /\ response'.session \notin DOMAIN search_sessions =>
                  response' = NotFound("feedback", response'.session)
           /\ (/\ response'.session \in DOMAIN search_sessions
               /\ search_sessions[response'.session].status # "complete") =>
                  response'.code = 400
           /\ response'.code # 200 =>
                  /\ response'.body \in Rejections
                  /\ feedback_collection' = feedback_collection
                  /\ preference_weights_collection'
                         = preference_weights_collection
                  /\ seen_listings' = seen_listings]_vars

\* C38 witness: a session with a feedback event and a seen listing has
\* answered feedback on a listing that is none of its reports
C38_Witness ==
    /\ response.endpoint = "feedback"
    /\ response.code = 404
    /\ response.body = "Listing not found in this session"
    /\ Len(SeenOf(response.session)) >= 1
    /\ FeedbackIds(response.session) # {}

-----------------------------------------------------------------------------
(* Ranking with all-zero weights (SpecLearner, SpecFloat)                   *)

\* the session has stored weights, one per feature, and every one is 0
AllZeroWeights(session_id) ==
    /\ session_id \in DOMAIN preference_weights_collection
    /\ LET weights ==
               preference_weights_collection[session_id].document.weights
       IN  /\ DOMAIN weights # {}
           /\ \A f \in DOMAIN weights : weights[f] = Num(0)

\* in exact arithmetic, on the whole-number scores of the catalogue
\* (SpecLearner): with all-zero weights the ranking is the one of the
\* fallback
ExactZeroWeightsRankLikeFallback ==
    (/\ ret # None
     /\ ret[1].op = "get_ranked_listings"
     /\ AllZeroWeights(ret[1].session_id)) =>
        /\ SortedByFinalScore(ret[1].listings, ret[1].value)
        /\ ret[1].value = sort_final_reports(ret[1].listings)

\* C39: when the stored weights of a session are all zero,
\* get_ranked_listings returns the reports in the order of the no-weights
\* fallback: final_score descending, reports of equal final_score in input
\* order (SpecFloat: the final scores are floats).
C39_ZeroWeightsRankLikeFallback ==
    (/\ ret # None
     /\ ret[1].op = "get_ranked_listings"
     /\ AllZeroWeights(ret[1].session_id)) =>
        ret[1].value
            = get_ranked_listings_float(EmptyDict, ret[1].session_id,
                                        ret[1].listings)

=============================================================================
